---- MODULE Spec2Model ----
(***************************************************************************)
(* Acoustic modem (src/src/App.jsx): the packet codec, and the receiver    *)
(* state machine driven by the sampling interval.                          *)
(*                                                                         *)
(* Times are milliseconds (performance.now()), magnitudes are the          *)
(* normalized 0..1 magnitudes in thousandths, bytes are 0..255, nibbles    *)
(* 0..15.  Sequences are 1-based: byte i of the source is element i+1.     *)
(*                                                                         *)
(* State that only feeds the display (debugMag, symCells, decodedBits, the *)
(* image element built from the payload) is left out: no handler reads it  *)
(* back.                                                                   *)
(***************************************************************************)
EXTENDS Integers, Sequences, FiniteSets, TLC

VARIABLES
    \* ---- codec harness: the last codec call, its argument and its result
    cOp, cArg, cRes,
    \* ---- configuration refs (symDurRef, threshRef)
    symDurRef, threshRef,
    \* ---- decode state refs
    rxState, rxNibbles, sampleBuf, lastSymTime, preambleAt, preambleEndsAt,
    silenceCount, rxDataStart,
    \* ---- receiver UI state: status line, decoded output, image progress
    rxStatus, rxOutput, rxImgProg,
    \* ---- listening session: isListening(Ref), running sampling intervals,
    \*      getUserMedia calls not yet answered, pending setTimeout callbacks,
    \*      whether the interval held in sampleIntervalRef is running, the
    \*      number of presses of the listen button so far, and the period
    \*      the sampling interval was started with
    isListening, intervals, micPending, timers, refLive, clicks, sampleMs,
    \* ---- what the last handler did: the statuses and the progress values it
    \*      set, in order, and the samples of the window it closed, if any
    emitted, progEmitted, closedWindow,
    \* ---- environment: the clock, the packet on the channel, the channel
    now, sent, chan, air,
    \* ---- transmitter: the busy flag, the progress shown (the fraction
    \*      num/den of 100%), the status line,
    \*      the animation loop of the running transmission, the tones handed
    \*      to the audio clock, the last transmit request and their number
    txBusy, txProgress, txStatus, txAnim, txTones, txReq, txCount,
    \* ---- the receivers of the two earlier programs kept in
    \*      src/unnamed/part_000, each with its own clock: the chirp-preamble
    \*      program (lines 1-747) and the program whose sync state waits for
    \*      the preamble to fade (lines 749-1455)
    chirpRx, fadeRx

codecVars == <<cOp, cArg, cRes>>
cfgVars == <<symDurRef, threshRef>>
refVars == <<rxState, rxNibbles, sampleBuf, lastSymTime, preambleAt,
             preambleEndsAt, silenceCount, rxDataStart>>
uiVars == <<rxStatus, rxOutput, rxImgProg>>
sessVars == <<isListening, intervals, micPending, refLive, clicks, sampleMs>>
logVars == <<emitted, progEmitted, closedWindow>>
envVars == <<now, sent, chan, air>>
rxVars == <<cfgVars, refVars, uiVars, sessVars, timers, logVars, envVars>>
txVars == <<txBusy, txProgress, txStatus, txAnim, txTones, txReq, txCount>>
otherVars == <<chirpRx, fadeRx>>
vars == <<codecVars, rxVars, txVars, otherVars>>

\* ------------------------------------------------------------------------
\* Program constants
\* ------------------------------------------------------------------------
MAGIC == <<65, 67, 83, 84>>
TYPE_TEXT == 84
TYPE_IMAGE == 73
HEADER_LEN == 16

\* ------------------------------------------------------------------------
\* 32-bit integer arithmetic of the JavaScript bitwise operators
\* ------------------------------------------------------------------------
Pow2_8 == 256
Pow2_16 == 65536
Pow2_24 == 16777216

\* A JavaScript number in 0 .. 2^32-1, held as two 16-bit halves <<hi, lo>>
\* (its value is hi * 2^16 + lo).
U32(hi, lo) == <<hi, lo>>

\* ToInt32, which every bitwise operator applies to its operands: the value
\* modulo 2^32, read as a two's-complement 32-bit integer.
ToInt32(u) ==
    IF u[1] >= 32768 THEN (u[1] - Pow2_16) * Pow2_16 + u[2]
                     ELSE u[1] * Pow2_16 + u[2]

\* x >> k on an int32 (sign-propagating shift): floor(x / 2^k).
Sar(x, p) == x \div p

\* x & 0xff, x & 0xf on an int32.
And255(x) == x % 256
And15(x) == x % 16

\* b << 24, b << 16, b << 8 for a byte b, as int32.
Shl24(b) == IF b >= 128 THEN (b - 256) * Pow2_24 ELSE b * Pow2_24
Shl16(b) == b * Pow2_16
Shl8(b) == b * Pow2_8

\* a | b on two int32 values (two's complement, bit by bit).
OrBit(a, b, p) == IF (a \div p) % 2 = 1 \/ (b \div p) % 2 = 1 THEN p ELSE 0

OrByte(a, b) ==
    OrBit(a, b, 1) + OrBit(a, b, 2) + OrBit(a, b, 4) + OrBit(a, b, 8)
    + OrBit(a, b, 16) + OrBit(a, b, 32) + OrBit(a, b, 64) + OrBit(a, b, 128)

RECURSIVE BitOr(_, _)
BitOr(a, b) ==
    IF a = 0 THEN b
    ELSE IF b = 0 THEN a
    ELSE IF a = -1 \/ b = -1 THEN -1
    ELSE OrByte(a % Pow2_8, b % Pow2_8) + Pow2_8 * BitOr(a \div Pow2_8, b \div Pow2_8)

\* ------------------------------------------------------------------------
\* Packet helpers
\* ------------------------------------------------------------------------

\* buildHeader(type, payloadLen, imgW, imgH); payloadLen, imgW, imgH as the
\* shifts see them (after ToInt32).  h is a Uint8Array: a store keeps the
\* low 8 bits.
\* The header with the payload length written low byte first.
BuildHeaderLittleEndian(type, payloadLen, imgW, imgH) ==
    << MAGIC[1], MAGIC[2], MAGIC[3], MAGIC[4],
       type % 256,
       And255(payloadLen), And255(Sar(payloadLen, Pow2_8)),
       And255(Sar(payloadLen, Pow2_16)), And255(Sar(payloadLen, Pow2_24)),
       And255(Sar(imgW, Pow2_8)), And255(imgW),
       And255(Sar(imgH, Pow2_8)), And255(imgH),
       0, 0, 0 >>

BuildHeader(type, payloadLen, imgW, imgH) ==
    << MAGIC[1], MAGIC[2], MAGIC[3], MAGIC[4],
       type % 256,
       And255(Sar(payloadLen, Pow2_24)), And255(Sar(payloadLen, Pow2_16)),
       And255(Sar(payloadLen, Pow2_8)), And255(payloadLen),
       And255(Sar(imgW, Pow2_8)), And255(imgW),
       And255(Sar(imgH, Pow2_8)), And255(imgH),
       0, 0, 0 >>

\* buildHeader(type, payloadLen): imgW = 0, imgH = 0 by default.
BuildHeaderDefault(type, payloadLen) == BuildHeader(type, payloadLen, 0, 0)

\* The null that parseHeader returns.
NullHeader == [valid |-> FALSE]

\* parseHeader with the magic loop stopping one byte early (i < 3).
ParseHeaderShortMagic(bytes) ==
    IF Len(bytes) < HEADER_LEN THEN NullHeader
    ELSE IF \E i \in 1..3 : bytes[i] # MAGIC[i] THEN NullHeader
    ELSE [ valid |-> TRUE, type |-> bytes[5], payloadLen |-> bytes[9],
           imgW |-> bytes[11], imgH |-> bytes[13] ]

\* parseHeader(bytes)
ParseHeader(bytes) ==
    IF Len(bytes) < HEADER_LEN THEN NullHeader
    ELSE IF \E i \in 1..4 : bytes[i] # MAGIC[i] THEN NullHeader
    ELSE [ valid |-> TRUE,
           type |-> bytes[5],
           payloadLen |-> BitOr(BitOr(BitOr(Shl24(bytes[6]), Shl16(bytes[7])),
                                      Shl8(bytes[8])), bytes[9]),
           imgW |-> BitOr(Shl8(bytes[10]), bytes[11]),
           imgH |-> BitOr(Shl8(bytes[12]), bytes[13]) ]

\* bytesToNibbles pushing the low nibble first.
BytesToNibblesLowFirst(bytes) ==
    [ k \in 1..(2 * Len(bytes)) |->
        IF k % 2 = 1 THEN And15(bytes[(k + 1) \div 2])
        ELSE And15(Sar(bytes[k \div 2], 16)) ]

\* bytesToNibbles(bytes): for each byte, push (b >> 4) & 0xf then b & 0xf.
\* The nibbles of byte j are elements 2j-1 and 2j of the result.
BytesToNibbles(bytes) ==
    [ k \in 1..(2 * Len(bytes)) |->
        IF k % 2 = 1 THEN And15(Sar(bytes[(k + 1) \div 2], 16))
        ELSE And15(bytes[k \div 2]) ]

\* The pairs joined low nibble first.
NibblesToBytesLowFirst(nibbles) ==
    [ k \in 1..(Len(nibbles) \div 2) |->
        BitOr(And15(nibbles[2 * k]) * 16, And15(nibbles[2 * k - 1])) ]

\* nibblesToBytes(nibbles): for (i = 0; i + 1 < length; i += 2)
\*   push(((n[i] & 0xf) << 4) | (n[i+1] & 0xf))
NibblesToBytes(nibbles) ==
    [ k \in 1..(Len(nibbles) \div 2) |->
        BitOr(And15(nibbles[2 * k - 1]) * 16, And15(nibbles[2 * k])) ]

\* All sequences over S of length at most n.
RECURSIVE SeqsUpTo(_, _)
SeqsUpTo(S, n) ==
    IF n = 0 THEN {<<>>}
    ELSE LET shorter == SeqsUpTo(S, n - 1)
         IN  shorter \cup { Append(q, x) : q \in shorter, x \in S }

\* ------------------------------------------------------------------------
\* Text payloads (TextEncoder / TextDecoder, UTF-8)
\* ------------------------------------------------------------------------

\* new TextEncoder().encode(text), text a sequence of code points below
\* U+0800: one byte below U+0080, two bytes otherwise.
RECURSIVE Utf8Encode(_)
Utf8Encode(text) ==
    IF text = <<>> THEN <<>>
    ELSE (IF Head(text) < 128 THEN << Head(text) >>
          ELSE << 192 + (Head(text) \div 64), 128 + (Head(text) % 64) >>)
         \o Utf8Encode(Tail(text))

\* new TextDecoder().decode(bytes), for bytes outside 0xE0..0xF4 (no three-
\* or four-byte sequences): an ASCII byte is its code point, a lead byte
\* 0xC2..0xDF with a continuation byte is one code point, any other byte
\* decodes to U+FFFD.  A continuation byte is consumed exactly when the byte
\* before it is a lead byte (a lead byte is never itself a continuation).
Utf8Decode(bytes) ==
    LET IsPair(i) == /\ bytes[i] \in 194..223
                     /\ i < Len(bytes)
                     /\ bytes[i + 1] \in 128..191
        Consumed(i) == i > 1 /\ IsPair(i - 1)
        starts == SelectSeq([i \in 1..Len(bytes) |-> i], LAMBDA i : ~Consumed(i))
    IN  [ k \in 1..Len(starts) |->
            LET i == starts[k]
            IN  IF bytes[i] < 128 THEN bytes[i]
                ELSE IF IsPair(i)
                     THEN (bytes[i] - 192) * 64 + (bytes[i + 1] - 128)
                ELSE 65533 ]

\* ------------------------------------------------------------------------
\* Transmitter: the nibble stream of one packet
\* ------------------------------------------------------------------------

\* transmit(): fullPacket = header ++ payload, nibbles = bytesToNibbles(..)
PacketNibbles(type, payload, imgW, imgH) ==
    BytesToNibbles(BuildHeader(type, Len(payload), imgW, imgH) \o payload)

\* ------------------------------------------------------------------------
\* Receiver constants
\* ------------------------------------------------------------------------
RX_IDLE == 0
RX_PREAMBLE == 1
RX_DATA == 2
PREAMBLE_SYMS == 4
GapMs == 60
TimeoutMs == 45000
TimeoutCooldownMs == 2000
CooldownMs == 3000
\* One more silent window before the packet is finalized.
FinalizeSilenceLate == 5 + 1
FinalizeSilence == 5
AbandonSilence == 10
MinSampleMs == 12
DefaultSymDuration == 120
\* useState(0.03), in thousandths
DefaultThreshold == 30

\* The null pushed into the sample buffer for a tick without signal.
NoSignal == 99

\* { visible, pct }: pct is the fraction num/den (den > 0).
Prog(visible, num, den) == [visible |-> visible, num |-> num, den |-> den]
HiddenProg == Prog(FALSE, 0, 1)

\* Math.min(n / total * 100, 100) as a fraction.
Pct(n, total) ==
    IF total = 0 THEN [num |-> 100, den |-> 1]
    ELSE IF total < 0 THEN [num |-> 0 - 100 * n, den |-> 0 - total]
    ELSE IF n >= total THEN [num |-> 100, den |-> 1]
    ELSE [num |-> 100 * n, den |-> total]

NoOutput ==
    [has |-> FALSE, kind |-> "none", text |-> <<>>, imgW |-> 0, imgH |-> 0,
     payload |-> <<>>]

\* ------------------------------------------------------------------------
\* Receiver: the session as a record, and the functions that update it
\* ------------------------------------------------------------------------
Session ==
    [ rxState |-> rxState, rxNibbles |-> rxNibbles, sampleBuf |-> sampleBuf,
      lastSymTime |-> lastSymTime, preambleAt |-> preambleAt,
      preambleEndsAt |-> preambleEndsAt, silenceCount |-> silenceCount,
      rxDataStart |-> rxDataStart, rxStatus |-> rxStatus,
      rxOutput |-> rxOutput, rxImgProg |-> rxImgProg, timers |-> timers,
      emitted |-> <<>>, progEmitted |-> <<>>, closedWindow |-> <<>> ]

SetRxStatus(s, kind) ==
    [s EXCEPT !.rxStatus = kind, !.emitted = Append(@, kind)]

SetRxImgProg(s, p) ==
    [s EXCEPT !.rxImgProg = p, !.progEmitted = Append(@, p)]

\* setTimeout(() => { if (isListeningRef.current) setRxStatus(LISTENING) }, ms)
SetTimeout(s, due) == [s EXCEPT !.timers = Append(@, due)]

\* A reset that leaves the silence counter as it is.
ResetRxStateKeepsSilence(s) ==
    SetRxImgProg([s EXCEPT !.rxState = RX_IDLE,
                           !.rxNibbles = <<>>,
                           !.sampleBuf = <<>>,
                           !.preambleAt = 0,
                           !.preambleEndsAt = 0,
                           !.rxDataStart = 0],
                 HiddenProg)

\* A reset that leaves the phase as it is.
ResetRxStateKeepsPhase(s) ==
    SetRxImgProg([s EXCEPT !.rxNibbles = <<>>,
                           !.sampleBuf = <<>>,
                           !.preambleAt = 0,
                           !.preambleEndsAt = 0,
                           !.silenceCount = 0,
                           !.rxDataStart = 0],
                 HiddenProg)

\* resetRxState()
ResetRxState(s) ==
    SetRxImgProg([s EXCEPT !.rxState = RX_IDLE,
                           !.rxNibbles = <<>>,
                           !.sampleBuf = <<>>,
                           !.preambleAt = 0,
                           !.preambleEndsAt = 0,
                           !.silenceCount = 0,
                           !.rxDataStart = 0],
                 HiddenProg)

\* slice taking one byte too few.
SliceFromShort(bytes, start, end) ==
    IF end - 1 > start /\ start < Len(bytes)
    THEN SubSeq(bytes, start + 1, IF end - 1 < Len(bytes) THEN end - 1 ELSE Len(bytes))
    ELSE <<>>

\* A length read from a header, as it enters number arithmetic. JavaScript
\* adds and doubles it exactly; here values beyond 2^29 are held at 2^29
\* (with their sign), far above every accumulator length they are compared
\* with, so that the sums stay within the checker's integers.
Saturated(x) ==
    IF x > 32 * Pow2_24 THEN 32 * Pow2_24
    ELSE IF x < 0 - 32 * Pow2_24 THEN 0 - 32 * Pow2_24
    ELSE x

\* bytes.slice(start, end), start >= 0: a negative end counts from the end.
SliceFrom(bytes, start, end) ==
    LET len == Len(bytes)
        from == IF start < len THEN start ELSE len
        to == IF end < 0 THEN (IF len + end > 0 THEN len + end ELSE 0)
              ELSE IF end < len THEN end ELSE len
    IN  IF to > from THEN SubSeq(bytes, from + 1, to) ELSE <<>>

\* The length test compared with the header's bytes, not its nibbles.
TooShortInBytes(trimNib) == Len(trimNib) < HEADER_LEN

\* trimNib.length < HEADER_LEN * 2
TooShort(trimNib) == Len(trimNib) < HEADER_LEN * 2

\* finalizePacket()
FinalizePacket(s, t) ==
    LET trimNib == SubSeq(s.rxNibbles, 1, (Len(s.rxNibbles) \div 2) * 2)
    IN
    IF TooShort(trimNib)
    THEN SetTimeout(ResetRxState(SetRxStatus(s, "INCOMPLETE")), t + CooldownMs)
    ELSE
    LET allBytes == NibblesToBytes(trimNib)
        hdr == ParseHeader(allBytes)
    IN
    IF ~hdr.valid
    THEN ResetRxState(SetRxStatus(s, "BAD_HEADER"))
    ELSE
    LET payload == SliceFrom(allBytes, HEADER_LEN, HEADER_LEN + Saturated(hdr.payloadLen))
        shown ==
            IF hdr.type = TYPE_TEXT
            THEN SetRxStatus(
                   [s EXCEPT !.rxOutput =
                      [has |-> TRUE, kind |-> "text", text |-> Utf8Decode(payload),
                       imgW |-> 0, imgH |-> 0, payload |-> payload]],
                   "TEXT_OK")
            ELSE IF hdr.type = TYPE_IMAGE
            THEN SetRxStatus(
                   [SetRxImgProg(s, [s.rxImgProg EXCEPT !.visible = FALSE])
                      EXCEPT !.rxOutput =
                      [has |-> TRUE, kind |-> "image", text |-> <<>>,
                       imgW |-> hdr.imgW, imgH |-> hdr.imgH, payload |-> payload]],
                   "IMAGE_OK")
            ELSE SetRxStatus(s, "UNKNOWN_TYPE")
    IN  SetTimeout(ResetRxState(shown), t + CooldownMs)

\* The expected total without the header.
TotalNibblesOfPayload(hdr) == hdr.payloadLen * 2

\* totalNibbles = (HEADER_LEN + hdr.payloadLen) * 2
TotalNibbles(hdr) == (HEADER_LEN + Saturated(hdr.payloadLen)) * 2

\* liveUpdateRxImage()
LiveUpdateRxImage(s, t) ==
    IF Len(s.rxNibbles) < HEADER_LEN * 2 THEN s
    ELSE
    LET hdr == ParseHeader(NibblesToBytes(SubSeq(s.rxNibbles, 1, HEADER_LEN * 2)))
    IN
    IF ~hdr.valid THEN s
    ELSE IF hdr.type # TYPE_IMAGE THEN s
    ELSE
    LET totalNibbles == TotalNibbles(hdr)
        pct == Pct(Len(s.rxNibbles), totalNibbles)
        s1 == SetRxImgProg(s, Prog(TRUE, pct.num, pct.den))
    IN  IF Len(s.rxNibbles) >= totalNibbles THEN FinalizePacket(s1, t) ELSE s1

\* counts = new Array(16).fill(0); valid.forEach(s => counts[s]++)
Counts(valid) ==
    [ i \in 0..15 |-> Cardinality({ k \in 1..Len(valid) : valid[k] = i }) ]

\* Math.max(...counts)
RECURSIVE MaxUpTo(_, _)
MaxUpTo(counts, i) ==
    IF i = 0 THEN counts[0]
    ELSE LET m == MaxUpTo(counts, i - 1)
         IN  IF counts[i] > m THEN counts[i] ELSE m

\* counts.indexOf(v): the first index holding v, scanning up from i.
RECURSIVE IndexOfFrom(_, _, _)
IndexOfFrom(counts, v, i) ==
    IF i > 15 THEN -1
    ELSE IF counts[i] = v THEN i
    ELSE IndexOfFrom(counts, v, i + 1)

\* counts.lastIndexOf(v): the last index holding v, scanning down from i.
RECURSIVE LastIndexOfFrom(_, _, _)
LastIndexOfFrom(counts, v, i) ==
    IF i < 0 THEN -1
    ELSE IF counts[i] = v THEN i
    ELSE LastIndexOfFrom(counts, v, i - 1)

\* The vote resolving ties to the highest symbol.
MajorityVoteLast(valid) ==
    LastIndexOfFrom(Counts(valid), MaxUpTo(Counts(valid), 15), 15)

\* winner = counts.indexOf(Math.max(...counts))
MajorityVote(valid) ==
    IndexOfFrom(Counts(valid), MaxUpTo(Counts(valid), 15), 0)

\* The scan replacing the best channel also on an equal magnitude.
RECURSIVE BestUpToLast(_, _)
BestUpToLast(mags, i) ==
    IF i < 0 THEN [symbol |-> -1, magnitude |-> 0]
    ELSE LET b == BestUpToLast(mags, i - 1)
         IN  IF mags[i] >= b.magnitude THEN [symbol |-> i, magnitude |-> mags[i]]
             ELSE b

\* let bestSym = -1, bestMag = 0
\* mags.forEach((m, i) => { if (m > bestMag) { bestMag = m; bestSym = i } })
\* after channels 0..i.
RECURSIVE BestUpTo(_, _)
BestUpTo(mags, i) ==
    IF i < 0 THEN [symbol |-> -1, magnitude |-> 0]
    ELSE LET b == BestUpTo(mags, i - 1)
         IN  IF mags[i] > b.magnitude THEN [symbol |-> i, magnitude |-> mags[i]]
             ELSE b

\* detectSymbol(), as a function of the 16 channel magnitudes mags[0..15]
\* (thousandths) computed from the analyser's bins.
DetectSymbol(mags) == BestUpTo(mags, 15)

\* The data start counted from the confirming tick.
IdleStepFromTick(s, t, mp) ==
    IF mp > threshRef
    THEN LET pa == IF s.preambleAt = 0 THEN t ELSE s.preambleAt
             s1 == [s EXCEPT !.preambleAt = pa]
         IN  IF t - pa > symDurRef
             THEN SetRxStatus(
                    [s1 EXCEPT !.preambleEndsAt = t + PREAMBLE_SYMS * symDurRef + GapMs,
                               !.rxState = RX_PREAMBLE],
                    "PREAMBLE")
             ELSE s1
    ELSE [s EXCEPT !.preambleAt = 0]

\* The interval callback in RX_IDLE.
IdleStep(s, t, mp) ==
    IF mp > threshRef
    THEN LET pa == IF s.preambleAt = 0 THEN t ELSE s.preambleAt
             s1 == [s EXCEPT !.preambleAt = pa]
         IN  IF t - pa > symDurRef
             THEN SetRxStatus(
                    [s1 EXCEPT !.preambleEndsAt = pa + PREAMBLE_SYMS * symDurRef + GapMs,
                               !.rxState = RX_PREAMBLE],
                    "PREAMBLE")
             ELSE s1
    ELSE [s EXCEPT !.preambleAt = 0]

\* The sync exit tested against the time the preamble was first heard.
PreambleStepEarly(s, t) ==
    IF t >= s.preambleAt
    THEN SetRxStatus([s EXCEPT !.rxState = RX_DATA,
                               !.rxNibbles = <<>>,
                               !.sampleBuf = <<>>,
                               !.lastSymTime = t,
                               !.silenceCount = 0,
                               !.rxDataStart = t],
                     "RECEIVING")
    ELSE s

\* The interval callback in RX_PREAMBLE.
PreambleStep(s, t) ==
    IF t >= s.preambleEndsAt
    THEN SetRxStatus([s EXCEPT !.rxState = RX_DATA,
                               !.rxNibbles = <<>>,
                               !.sampleBuf = <<>>,
                               !.lastSymTime = t,
                               !.silenceCount = 0,
                               !.rxDataStart = t],
                     "RECEIVING")
    ELSE s

\* The abandon test without the test for an empty accumulator.
AbandonedAnyLength(s) == s.silenceCount >= AbandonSilence

\* The abandon test passing only after one more silent window.
AbandonedLate(s) == s.silenceCount > AbandonSilence /\ Len(s.rxNibbles) = 0

\* silenceCountRef.current >= 10 && rxNibblesRef.current.length === 0
Abandoned(s) == s.silenceCount >= AbandonSilence /\ Len(s.rxNibbles) = 0

\* The window close finalizing once more after the progress update has
\* finalized the packet.
CloseWindowFinalizingAgain(s0, t) ==
    LET s == [s0 EXCEPT !.closedWindow = s0.sampleBuf]
        valid == SelectSeq(s.sampleBuf, LAMBDA x : x # NoSignal)
        NextWindow(u) == [u EXCEPT !.sampleBuf = <<>>, !.lastSymTime = t]
    IN
    IF Len(valid) > 0
    THEN LET u == LiveUpdateRxImage(
                    [s EXCEPT !.rxNibbles = Append(@, MajorityVote(valid)),
                              !.silenceCount = 0], t)
         IN  NextWindow(IF u.rxState = RX_IDLE THEN FinalizePacket(u, t) ELSE u)
    ELSE
    LET s1 == [s EXCEPT !.silenceCount = @ + 1]
    IN  IF s1.silenceCount >= FinalizeSilence /\ Len(s1.rxNibbles) >= HEADER_LEN * 2
        THEN FinalizePacket(s1, t)
        ELSE IF Abandoned(s1)
        THEN SetRxStatus(ResetRxState(s1), "LISTENING")
        ELSE NextWindow(s1)

\* The window close finalizing after five silent windows whatever the
\* accumulator holds.
CloseWindowAnyLength(s0, t) ==
    LET s == [s0 EXCEPT !.closedWindow = s0.sampleBuf]
        valid == SelectSeq(s.sampleBuf, LAMBDA x : x # NoSignal)
        NextWindow(u) == [u EXCEPT !.sampleBuf = <<>>, !.lastSymTime = t]
    IN
    IF Len(valid) > 0
    THEN NextWindow(LiveUpdateRxImage(
           [s EXCEPT !.rxNibbles = Append(@, MajorityVote(valid)),
                     !.silenceCount = 0], t))
    ELSE
    LET s1 == [s EXCEPT !.silenceCount = @ + 1]
    IN  IF s1.silenceCount >= FinalizeSilence /\ Len(s1.rxNibbles) > 0
        THEN FinalizePacket(s1, t)
        ELSE IF Abandoned(s1)
        THEN SetRxStatus(ResetRxState(s1), "LISTENING")
        ELSE NextWindow(s1)

\* The interval callback in RX_DATA, once the window is due: the vote, the
\* silence counter, finalize or abandon, and the start of the next window.
CloseWindow(s0, t) ==
    LET s == [s0 EXCEPT !.closedWindow = s0.sampleBuf]
        valid == SelectSeq(s.sampleBuf, LAMBDA x : x # NoSignal)
        NextWindow(u) == [u EXCEPT !.sampleBuf = <<>>, !.lastSymTime = t]
    IN
    IF Len(valid) > 0
    THEN NextWindow(LiveUpdateRxImage(
           [s EXCEPT !.rxNibbles = Append(@, MajorityVote(valid)),
                     !.silenceCount = 0], t))
    ELSE
    LET s1 == [s EXCEPT !.silenceCount = @ + 1]
    IN  IF s1.silenceCount >= FinalizeSilence /\ Len(s1.rxNibbles) >= HEADER_LEN * 2
        THEN FinalizePacket(s1, t)
        ELSE IF Abandoned(s1)
        THEN SetRxStatus(ResetRxState(s1), "LISTENING")
        ELSE NextWindow(s1)

\* The timeout test passing already at the ceiling.
TimedOutAtCeiling(s, t) == t - s.rxDataStart >= TimeoutMs

\* now - rxDataStartRef.current > 45000
TimedOut(s, t) == t - s.rxDataStart > TimeoutMs

\* The sample test passing already at the threshold.
DataStepAtThreshold(s, t, det) ==
    IF TimedOut(s, t)
    THEN SetTimeout(ResetRxState(SetRxStatus(s, "TIMEOUT")), t + TimeoutCooldownMs)
    ELSE
    LET s1 == IF det.magnitude >= threshRef
              THEN [s EXCEPT !.sampleBuf = Append(@, det.symbol),
                             !.silenceCount = 0]
              ELSE [s EXCEPT !.sampleBuf = Append(@, NoSignal)]
    IN  IF t - s1.lastSymTime >= symDurRef THEN CloseWindow(s1, t) ELSE s1

\* The timeout handing a held header and payload to finalizePacket.
DataStepFinalizingLate(s, t, det) ==
    IF TimedOut(s, t)
    THEN IF Len(s.rxNibbles) >= HEADER_LEN * 2
         THEN FinalizePacket(s, t)
         ELSE SetTimeout(ResetRxState(SetRxStatus(s, "TIMEOUT")), t + TimeoutCooldownMs)
    ELSE
    LET s1 == IF det.magnitude > threshRef
              THEN [s EXCEPT !.sampleBuf = Append(@, det.symbol),
                             !.silenceCount = 0]
              ELSE [s EXCEPT !.sampleBuf = Append(@, NoSignal)]
    IN  IF t - s1.lastSymTime >= symDurRef THEN CloseWindow(s1, t) ELSE s1

\* The interval callback in RX_DATA.
DataStep(s, t, det) ==
    IF TimedOut(s, t)
    THEN SetTimeout(ResetRxState(SetRxStatus(s, "TIMEOUT")), t + TimeoutCooldownMs)
    ELSE
    LET s1 == IF det.magnitude > threshRef
              THEN [s EXCEPT !.sampleBuf = Append(@, det.symbol),
                             !.silenceCount = 0]
              ELSE [s EXCEPT !.sampleBuf = Append(@, NoSignal)]
    IN  IF t - s1.lastSymTime >= symDurRef THEN CloseWindow(s1, t) ELSE s1

\* The interval callback: one step of the state machine at clock reading t,
\* with preamble magnitude mp and detector result det.
TickStep(s, t, mp, det) ==
    IF s.rxState = RX_IDLE THEN IdleStep(s, t, mp)
    ELSE IF s.rxState = RX_PREAMBLE THEN PreambleStep(s, t)
    ELSE IF s.rxState = RX_DATA THEN DataStep(s, t, det)
    ELSE s

\* The session record written back to the variables.
Commit(s) ==
    /\ rxState' = s.rxState
    /\ rxNibbles' = s.rxNibbles
    /\ sampleBuf' = s.sampleBuf
    /\ lastSymTime' = s.lastSymTime
    /\ preambleAt' = s.preambleAt
    /\ preambleEndsAt' = s.preambleEndsAt
    /\ silenceCount' = s.silenceCount
    /\ rxDataStart' = s.rxDataStart
    /\ rxStatus' = s.rxStatus
    /\ rxOutput' = s.rxOutput
    /\ rxImgProg' = s.rxImgProg
    /\ timers' = s.timers
    /\ emitted' = s.emitted
    /\ progEmitted' = s.progEmitted
    /\ closedWindow' = s.closedWindow

\* ------------------------------------------------------------------------
\* Environment: what is on the channel, and what each tick reads from it
\* ------------------------------------------------------------------------
MaxPayloadLen == 2
MaxNoisyWindows == 2

PayloadBytes == {72, 169, 195}
Payloads == SeqsUpTo(PayloadBytes, MaxPayloadLen)
UnknownType == 88
NoiseSyms == {2, 5}

\* A packet as transmit() sends it (type TEXT or IMAGE), or as another
\* sender would with a type byte this receiver does not know.
Packet(type, payload, imgW, imgH) ==
    [ type |-> type, payload |-> payload, imgW |-> imgW, imgH |-> imgH,
      nibbles |-> PacketNibbles(type, payload, imgW, imgH), intact |-> TRUE ]

IntactPackets ==
    { Packet(TYPE_TEXT, P, 0, 0) : P \in Payloads }
    \cup { Packet(ty, P, 48, 48) : ty \in {TYPE_IMAGE, UnknownType}, P \in Payloads }

\* The stream of a packet that stops after its first n nibbles.
CutPacket(pk, n) ==
    [pk EXCEPT !.nibbles = SubSeq(pk.nibbles, 1, n), !.intact = FALSE]

\* The stream of a packet whose nibble i arrives as another symbol.
GarbledPacket(pk, i) ==
    [pk EXCEPT !.nibbles[i] = (@ + 1) % 16, !.intact = FALSE]

\* Packets whose data phase outlasts the 45 s ceiling at the default symbol
\* duration: 172 payload bytes are 376 symbols of 120 ms.
LongPackets ==
    { Packet(ty, [k \in 1..172 |-> 72], 48, 48) : ty \in {TYPE_TEXT, TYPE_IMAGE} }

BrokenPackets ==
    { CutPacket(Packet(TYPE_TEXT, <<72, 169>>, 0, 0), n) : n \in {0, 1, 31, 32, 33, 35} }
    \cup { GarbledPacket(Packet(ty, <<72>>, 0, 0), i) :
             ty \in {TYPE_TEXT, TYPE_IMAGE}, i \in {2, 7} }

DetSilent == [symbol |-> -1, magnitude |-> 0]
DetWeak(sym) == [symbol |-> sym, magnitude |-> 10]
DetHot(sym) == [symbol |-> sym, magnitude |-> 500]

\* Magnitudes (thousandths) not above and above the default threshold.
ColdMags == {0, 30}
HotMags == {31, 500}

\* sampleMs = Math.max(12, Math.floor(symDurRef.current / 5)), computed
\* once, when startSampling starts the interval
SampleMs ==
    IF symDurRef \div 5 > MinSampleMs THEN symDurRef \div 5 ELSE MinSampleMs

\* The sampling clock keeps being observed while a transmission is on the
\* channel or a scheduled status callback is still to come.
Observed == air # "quiet" \/ \E i \in 1..Len(timers) : timers[i] > now

\* The gaps between two ticks: the interval period (several intervals
\* running at once share it evenly); on the noisy channel also one missed
\* period.
TickGaps ==
    IF chan = "noisy" /\ rxState = RX_DATA
    THEN { d \in {sampleMs, 2 * sampleMs} :
             now + d <= rxDataStart + MaxNoisyWindows * (symDurRef + sampleMs) }
    ELSE IF intervals > 1 THEN {sampleMs \div intervals}
    ELSE {sampleMs}

\* The preamble magnitudes a tick may read.
PreambleMags ==
    IF rxState = RX_IDLE
    THEN (IF air = "preamble" THEN HotMags ELSE ColdMags)
    ELSE IF rxState = RX_PREAMBLE THEN ColdMags \cup HotMags
    ELSE {0, 500}

\* The detector results a tick may read.
Detections ==
    IF rxState = RX_IDLE THEN {DetSilent}
    ELSE IF rxState = RX_PREAMBLE THEN {DetSilent, DetWeak(3), DetHot(3)}
    ELSE IF chan = "noisy"
    THEN {DetSilent} \cup { DetHot(y) : y \in NoiseSyms }
    ELSE IF Len(rxNibbles) < Len(sent.nibbles)
    THEN { DetHot(sent.nibbles[Len(rxNibbles) + 1]) }
    ELSE {DetSilent, DetWeak(0)}

\* ------------------------------------------------------------------------
\* The receivers of the two programs in src/unnamed/part_000
\* ------------------------------------------------------------------------
RX_SYNC == 1
PRE_TONE_A == 600
PRE_TONE_B == 800
PREAMBLE_PAIRS == 3
\* useState(120), useState(0.08) in thousandths
ChirpSymDuration == 120
ChirpThreshold == 80
\* Math.max(10, Math.floor(symDurRef.current / 6))
ChirpMinSampleMs == 10
ChirpSampleMs ==
    IF ChirpSymDuration \div 6 > ChirpMinSampleMs THEN ChirpSymDuration \div 6
    ELSE ChirpMinSampleMs
\* if (syncBufRef.current.length > 20) syncBufRef.current.shift()
SyncBufMax == 20
\* alternations >= 4 && buf.length >= 6
MinAlternations == 4
MinSyncLen == 6
\* dataStartAtRef.current = now + (PREAMBLE_PAIRS * 2 * sd) + 80
ChirpRxGapMs == 80
\* t += 0.06 in transmit()
ChirpTxGapMs == 60

\* The chirp program's refs and state after construction, with its clock.
InitChirpRx ==
    [ rxState |-> RX_IDLE, rxNibbles |-> <<>>, sampleBuf |-> <<>>,
      lastSymTime |-> 0, silenceCount |-> 0, syncBuf |-> <<>>, dataStartAt |-> 0,
      isListening |-> FALSE, rxStatus |-> "INACTIVE",
      debugInfo |-> [a |-> 0, b |-> 0], now |-> 0 ]

\* resetRxState() of the chirp program
ChirpResetRxState(r) ==
    [r EXCEPT !.rxState = RX_IDLE, !.rxNibbles = <<>>, !.sampleBuf = <<>>,
              !.silenceCount = 0, !.syncBuf = <<>>, !.dataStartAt = 0]

\* for (i = 1; i < buf.length; i++) if (buf[i] !== buf[i - 1]) alternations++
Alternations(buf) == Cardinality({ i \in 2..Len(buf) : buf[i] # buf[i - 1] })

\* The confirmation test asking for one alternation less.
ChirpConfirmedEarly(buf) == Alternations(buf) >= MinAlternations - 1 /\ Len(buf) >= MinSyncLen

\* alternations >= 4 && buf.length >= 6
ChirpConfirmed(buf) == Alternations(buf) >= MinAlternations /\ Len(buf) >= MinSyncLen

\* The interval callback of the chirp program in RX_IDLE.
ChirpIdleStep(r, t, magA, magB) ==
    LET dominant == IF magA > magB THEN "A" ELSE "B"
        top == IF magA > magB THEN magA ELSE magB
    IN  IF top > ChirpThreshold
        THEN LET pushed == Append(r.syncBuf, dominant)
                 buf == IF Len(pushed) > SyncBufMax THEN Tail(pushed) ELSE pushed
             IN  IF ChirpConfirmed(buf)
                 THEN [r EXCEPT !.syncBuf = buf,
                                !.rxState = RX_SYNC,
                                !.dataStartAt =
                                    t + PREAMBLE_PAIRS * 2 * ChirpSymDuration + ChirpRxGapMs,
                                !.rxStatus = "CHIRP"]
                 ELSE [r EXCEPT !.syncBuf = buf]
        ELSE IF Len(r.syncBuf) > 0
        THEN [r EXCEPT !.syncBuf = SubSeq(r.syncBuf, 1, Len(r.syncBuf) - 1)]
        ELSE r

\* The interval callback of the chirp program in RX_SYNC.
ChirpSyncStep(r, t) ==
    IF t >= r.dataStartAt
    THEN [r EXCEPT !.rxState = RX_DATA, !.rxNibbles = <<>>, !.sampleBuf = <<>>,
                   !.lastSymTime = t, !.silenceCount = 0, !.rxStatus = "RECEIVING"]
    ELSE r

\* useState(100), useState(0.05) in thousandths
FadeSymDuration == 100
FadeThreshold == 50
\* Math.max(15, Math.floor(symDurRef.current / 4))
FadeMinSampleMs == 15
FadeSampleMs ==
    IF FadeSymDuration \div 4 > FadeMinSampleMs THEN FadeSymDuration \div 4
    ELSE FadeMinSampleMs

\* The refs and state of the program of lines 749-1455 after construction,
\* with its clock.
InitFadeRx ==
    [ rxState |-> RX_IDLE, rxNibbles |-> <<>>, sampleBuf |-> <<>>,
      lastSymTime |-> 0, preambleAt |-> 0, silenceCount |-> 0,
      isListening |-> FALSE, rxStatus |-> "INACTIVE", now |-> 0 ]

\* resetRxState() of that program
FadeResetRxState(r) ==
    [r EXCEPT !.rxState = RX_IDLE, !.rxNibbles = <<>>, !.sampleBuf = <<>>,
              !.preambleAt = 0, !.silenceCount = 0]

\* The interval callback of that program in RX_IDLE:
\* now - preambleAtRef.current > sd * 1.2
FadeIdleStep(r, t, mp) ==
    IF mp > FadeThreshold
    THEN LET pa == IF r.preambleAt = 0 THEN t ELSE r.preambleAt
         IN  IF (t - pa) * 10 > FadeSymDuration * 12
             THEN [r EXCEPT !.preambleAt = pa, !.rxState = RX_PREAMBLE,
                            !.rxStatus = "PREAMBLE"]
             ELSE [r EXCEPT !.preambleAt = pa]
    ELSE [r EXCEPT !.preambleAt = 0]

\* The interval callback of that program in RX_PREAMBLE:
\* if (mp < THRESH * 0.5)
FadePreambleStep(r, t, mp) ==
    IF mp * 2 < FadeThreshold
    THEN [r EXCEPT !.rxState = RX_DATA, !.rxNibbles = <<>>, !.sampleBuf = <<>>,
                   !.lastSymTime = t, !.silenceCount = 0, !.rxStatus = "RECEIVING"]
    ELSE r

InitOther ==
    /\ chirpRx = InitChirpRx
    /\ fadeRx = InitFadeRx

\* ------------------------------------------------------------------------
\* State after construction, and the handlers
\* ------------------------------------------------------------------------
\* The transmitter after construction: not busy, progress 0, nothing sent.
NoRequest == [mode |-> "none", text |-> <<>>, image |-> <<>>]
NoAnim == [on |-> FALSE, txStart |-> 0, totalMs |-> 1, ran |-> FALSE]

InitTx ==
    /\ txBusy = FALSE
    /\ txProgress = [num |-> 0, den |-> 1]
    /\ txStatus = "READY"
    /\ txAnim = NoAnim
    /\ txTones = <<>>
    /\ txReq = NoRequest
    /\ txCount = 0

InitRx ==
    /\ symDurRef = DefaultSymDuration
    /\ threshRef = DefaultThreshold
    /\ rxState = RX_IDLE
    /\ rxNibbles = <<>>
    /\ sampleBuf = <<>>
    /\ lastSymTime = 0
    /\ preambleAt = 0
    /\ preambleEndsAt = 0
    /\ silenceCount = 0
    /\ rxDataStart = 0
    /\ sampleMs = 0
    /\ rxStatus = "INACTIVE"
    /\ rxOutput = NoOutput
    /\ rxImgProg = HiddenProg
    /\ isListening = FALSE
    /\ intervals = 0
    /\ micPending = 0
    /\ refLive = FALSE
    /\ clicks = 0
    /\ timers = <<>>
    /\ emitted = <<>>
    /\ progEmitted = <<>>
    /\ closedWindow = <<>>
    /\ now = 0

InitEnv ==
    \/ /\ chan = "clean"
       /\ air = "preamble"
       /\ sent \in IntactPackets \cup LongPackets \cup BrokenPackets
    \/ chan = "noisy" /\ air = "preamble" /\ sent = CutPacket(Packet(TYPE_TEXT, <<>>, 0, 0), 0)

\* The listen button pressed while not listening: startListening() up to
\* the await of getUserMedia.
StartListening ==
    /\ micPending' = micPending + 1
    /\ emitted' = <<>>
    /\ progEmitted' = <<>>
    /\ closedWindow' = <<>>
    /\ clicks' = clicks + 1
    /\ UNCHANGED <<codecVars, txVars, otherVars, cfgVars, refVars, uiVars, isListening, intervals,
                   refLive, sampleMs, timers, envVars>>

\* startListening() after getUserMedia resolved: the session is marked as
\* listening, reset, and the sampling interval is started.
MicGranted ==
    /\ micPending > 0
    /\ micPending' = micPending - 1
    /\ isListening' = TRUE
    /\ Commit(ResetRxState(SetRxStatus(Session, "LISTENING")))
    /\ intervals' = intervals + 1
    /\ refLive' = TRUE
    /\ sampleMs' = SampleMs
    /\ UNCHANGED <<codecVars, txVars, otherVars, cfgVars, clicks, envVars>>

\* One run of the setInterval callback, dt after the previous clock reading.
Tick(dt, mp, det) ==
    /\ intervals > 0
    /\ now' = now + dt
    /\ LET s == TickStep(Session, now + dt, mp, det)
       IN  /\ Commit(s)
           /\ air' = IF rxState # RX_IDLE /\ s.rxState = RX_IDLE THEN "quiet" ELSE air
    /\ UNCHANGED <<codecVars, txVars, otherVars, cfgVars, sessVars, sent, chan>>

\* A callback scheduled by setTimeout runs once it is due.
CooldownFire ==
    \E i \in 1..Len(timers) :
        /\ timers[i] <= now
        /\ LET s == [Session EXCEPT
                       !.timers = SubSeq(timers, 1, i - 1) \o SubSeq(timers, i + 1, Len(timers))]
           IN  Commit(IF isListening THEN SetRxStatus(s, "LISTENING") ELSE s)
        /\ UNCHANGED <<codecVars, txVars, otherVars, cfgVars, sessVars, envVars>>

\* The listen button, pressed once while nothing is listening.
ListenClick ==
    /\ ~isListening
    /\ micPending = 0
    /\ intervals = 0
    /\ StartListening

\* The sampling clock, reading what the channel carries.
SampleTick ==
    /\ Observed
    /\ \E dt \in TickGaps, mp \in PreambleMags, det \in Detections : Tick(dt, mp, det)

Next == ListenClick \/ MicGranted \/ SampleTick \/ CooldownFire

\* ------------------------------------------------------------------------
\* Codec harness: the packet helpers applied to inputs from bounded sets
\* ------------------------------------------------------------------------
MaxBytesLen == 3

ByteSamples == {0, 15, 16, 65, 171, 240, 255}
TypeSamples == {0, TYPE_IMAGE, TYPE_TEXT, 255}
DimSamples == {0, 48, 255, 256, 65535}
\* payload lengths over the whole uint32 range, as <<hi, lo>> halves:
\* 0, 1, 12, 65535, 65536, 0x01020304, 2^31-1, 2^31, 2^32-1
LenSamples == { U32(0, 0), U32(0, 1), U32(0, 12), U32(0, 65535), U32(1, 0),
                U32(258, 772),
                U32(32767, 65535), U32(32768, 0), U32(65535, 65535) }

ByteSeqs == SeqsUpTo(ByteSamples, MaxBytesLen)

\* Inputs of parseHeader: a built header followed by MaxBytesLen more bytes,
\* with byte i-1 replaced by v (i = 0: nothing replaced), cut to n bytes.
ParseInputs ==
    { SubSeq([ k \in 1..(HEADER_LEN + MaxBytesLen) |->
                 IF k = i THEN v
                 ELSE IF k <= HEADER_LEN THEN BuildHeader(t, 12, 48, 48)[k]
                 ELSE 171 ], 1, n) :
        t \in TypeSamples, i \in 0..5, v \in {0, 65, 66, 84, 255},
        n \in 0..(HEADER_LEN + MaxBytesLen) }

\* Magnitude vectors: every channel at a floor level, up to three channels
\* (among the first, the last and two in between) at levels of their own.
MagLevels == {0, 10, 500, 1000}
MagChannels == {0, 3, 7, 15}
MagVectors ==
    { [ k \in 0..15 |-> IF k = i THEN a
                        ELSE IF k = j THEN b
                        ELSE IF k = l THEN c
                        ELSE floor ] :
        floor \in {0, 10}, i \in MagChannels, j \in MagChannels, l \in MagChannels,
        a \in MagLevels, b \in MagLevels, c \in MagLevels }

InitCodec ==
    /\ cOp = "none"
    /\ cArg = <<>>
    /\ cRes = <<>>

\* nibblesToBytes(bytesToNibbles(B))
NibbleRoundTrip ==
    /\ cOp = "none"
    /\ \E B \in ByteSeqs :
         /\ cOp' = "nib"
         /\ cArg' = B
         /\ cRes' = [ nibbles |-> BytesToNibbles(B),
                      bytes |-> NibblesToBytes(BytesToNibbles(B)) ]
    /\ UNCHANGED <<rxVars, txVars, otherVars>>

\* parseHeader(buildHeader(type, len, w, h))
HeaderRoundTrip ==
    /\ cOp = "none"
    /\ \E t \in TypeSamples, len \in LenSamples, w \in DimSamples, h \in DimSamples :
         /\ cOp' = "hdr"
         /\ cArg' = [type |-> t, len |-> len, imgW |-> w, imgH |-> h]
         /\ cRes' = ParseHeader(BuildHeader(t, ToInt32(len), w, h))
    /\ UNCHANGED <<rxVars, txVars, otherVars>>

\* parseHeader(bytes)
ParseCall ==
    /\ cOp = "none"
    /\ \E bytes \in ParseInputs :
         /\ cOp' = "parse"
         /\ cArg' = bytes
         /\ cRes' = ParseHeader(bytes)
    /\ UNCHANGED <<rxVars, txVars, otherVars>>

\* buildHeader(type, len, w, h), or buildHeader(type, len) when given is
\* FALSE
BuildCall ==
    /\ cOp = "none"
    /\ \E t \in TypeSamples, len \in LenSamples, w \in DimSamples, h \in DimSamples,
          given \in BOOLEAN :
         /\ cOp' = "build"
         /\ cArg' = [type |-> t, len |-> len, imgW |-> w, imgH |-> h, given |-> given]
         /\ cRes' = IF given THEN BuildHeader(t, ToInt32(len), w, h)
                    ELSE BuildHeaderDefault(t, ToInt32(len))
    /\ UNCHANGED <<rxVars, txVars, otherVars>>

\* detectSymbol() on the magnitudes mags
DetectCall ==
    /\ cOp = "none"
    /\ \E mags \in MagVectors :
         /\ cOp' = "detect"
         /\ cArg' = mags
         /\ cRes' = DetectSymbol(mags)
    /\ UNCHANGED <<rxVars, txVars, otherVars>>

NextCodec ==
    NibbleRoundTrip \/ HeaderRoundTrip \/ ParseCall \/ BuildCall \/ DetectCall

\* The codec harness runs with the receiver as constructed and nothing on
\* the channel.
InitCodecOnly ==
    /\ InitCodec
    /\ InitRx
    /\ InitTx
    /\ InitOther
    /\ chan = "clean"
    /\ air = "quiet"
    /\ sent = CutPacket(Packet(TYPE_TEXT, <<>>, 0, 0), 0)

SpecCodec == InitCodecOnly /\ [][NextCodec]_vars

\* ------------------------------------------------------------------------
\* The receiver listening to one transmission
\* ------------------------------------------------------------------------
Init == InitCodec /\ InitRx /\ InitTx /\ InitOther /\ InitEnv

Spec == Init /\ [][Next]_vars

\* ------------------------------------------------------------------------
\* finalizePacket() called directly on the session the receiver has reached
\* ------------------------------------------------------------------------
FinalizeCall ==
    /\ air # "called"
    /\ intervals > 0
    /\ Commit(FinalizePacket(Session, now))
    /\ air' = "called"
    /\ UNCHANGED <<codecVars, txVars, otherVars, cfgVars, sessVars, now, sent, chan>>

NextFinalize == (air # "called" /\ Next) \/ FinalizeCall

SpecFinalize == Init /\ [][NextFinalize]_vars

\* ------------------------------------------------------------------------
\* The listen button and the capture device: sessions started and stopped
\* ------------------------------------------------------------------------
MaxClicks == 2

\* The status set by the catch block of startListening().
MicErrorWithReset(s) == ResetRxState(SetRxStatus(s, "MIC_ERROR"))

\* catch (e) { setRxStatus('MIC ERROR: ' + e.message) }
MicError(s) == SetRxStatus(s, "MIC_ERROR")

\* startListening() when getUserMedia rejects.
MicDenied ==
    /\ micPending > 0
    /\ micPending' = micPending - 1
    /\ Commit(MicError(Session))
    /\ UNCHANGED <<codecVars, txVars, otherVars, cfgVars, isListening, intervals, refLive, clicks,
                   sampleMs, envVars>>

\* stopListening(): clearInterval stops the interval sampleIntervalRef
\* holds; the decode state refs are not touched.  What is on the channel is
\* not followed further once the capture device is released.
StopListening ==
    /\ isListening' = FALSE
    /\ intervals' = IF refLive THEN intervals - 1 ELSE intervals
    /\ refLive' = FALSE
    /\ Commit(SetRxStatus(Session, "INACTIVE"))
    /\ clicks' = clicks + 1
    /\ air' = "quiet"
    /\ UNCHANGED <<codecVars, txVars, otherVars, cfgVars, micPending, sampleMs, now, sent, chan>>

\* toggleListen(): isListening ? stopListening() : startListening()
ToggleListen ==
    /\ clicks < MaxClicks
    /\ IF isListening THEN StopListening ELSE StartListening

\* A preamble with no data tone after it: the receiver goes through IDLE,
\* RX_PREAMBLE and RX_DATA and gives the session up.
SessionPackets == { CutPacket(Packet(TYPE_TEXT, <<72>>, 0, 0), 0) }

InitSession ==
    /\ InitCodec
    /\ InitRx
    /\ InitTx
    /\ InitOther
    /\ chan = "clean"
    /\ air = "preamble"
    /\ sent \in SessionPackets

\* No setTimeout callback is ever pending here: the session is given up
\* without a cool-down.
NextSession == ToggleListen \/ MicGranted \/ MicDenied \/ SampleTick

SpecSession == InitSession /\ [][NextSession]_vars

\* ------------------------------------------------------------------------
\* The transmitter: transmit() and its progress loop
\* ------------------------------------------------------------------------
MaxTransmits == 2

PREAMBLE_FREQ == 500
DefaultBaseFreq == 1000
DefaultFreqSpacing == 200
\* txCtx.currentTime + 0.05, and performance.now() + 50
TxLeadMs == 50
\* the image edge (imgSize) the pending image is scaled to
DefaultImgSize == 48

\* What transmit() sends for a request, if anything: the text field
\* encoded, or the pending JPEG bytes (image <<>> : none loaded).
\* The empty text sent as an empty payload.
TxPayloadAnyText(req) ==
    IF req.mode = "text"
    THEN [ok |-> TRUE, type |-> TYPE_TEXT, bytes |-> Utf8Encode(req.text),
          imgW |-> 0, imgH |-> 0, status |-> "TRANSMITTING"]
    ELSE IF req.image = <<>>
    THEN [ok |-> FALSE, type |-> TYPE_IMAGE, bytes |-> <<>>, imgW |-> 0, imgH |-> 0,
          status |-> "NO_IMAGE"]
    ELSE [ok |-> TRUE, type |-> TYPE_IMAGE, bytes |-> req.image,
          imgW |-> DefaultImgSize, imgH |-> DefaultImgSize, status |-> "TRANSMITTING"]

\* if (!text) return  /  if (!pendingJpegBytes.current) { NO IMAGE LOADED }
TxPayload(req) ==
    IF req.mode = "text"
    THEN IF req.text = <<>>
         THEN [ok |-> FALSE, type |-> TYPE_TEXT, bytes |-> <<>>, imgW |-> 0,
               imgH |-> 0, status |-> txStatus]
         ELSE [ok |-> TRUE, type |-> TYPE_TEXT, bytes |-> Utf8Encode(req.text),
               imgW |-> 0, imgH |-> 0, status |-> "TRANSMITTING"]
    ELSE IF req.image = <<>>
    THEN [ok |-> FALSE, type |-> TYPE_IMAGE, bytes |-> <<>>, imgW |-> 0, imgH |-> 0,
          status |-> "NO_IMAGE"]
    ELSE [ok |-> TRUE, type |-> TYPE_IMAGE, bytes |-> req.image,
          imgW |-> DefaultImgSize, imgH |-> DefaultImgSize, status |-> "TRANSMITTING"]

\* A gap of 40 ms after the preamble.
TxGapMsShort == 60 - 20

\* t += symS * PREAMBLE_SYMS + 0.06
TxGapMs == 60

\* Data tones that fill their whole slot.
ScheduleWithFullTones(nibbles, sd, base, spacing) ==
    << [freq |-> PREAMBLE_FREQ, start |-> TxLeadMs, dur |-> sd * PREAMBLE_SYMS] >>
    \o [ k \in 1..Len(nibbles) |->
          [freq |-> base + nibbles[k] * spacing,
           start |-> TxLeadMs + sd * PREAMBLE_SYMS + TxGapMs + (k - 1) * sd,
           dur |-> sd] ]

\* The tones handed to playTone, times in ms after txCtx.currentTime: the
\* preamble, then one tone per nibble at getFreqs()[nibble], each 0.9
\* symbol long.
ScheduleWith(nibbles, sd, base, spacing) ==
    << [freq |-> PREAMBLE_FREQ, start |-> TxLeadMs, dur |-> sd * PREAMBLE_SYMS] >>
    \o [ k \in 1..Len(nibbles) |->
          [freq |-> base + nibbles[k] * spacing,
           start |-> TxLeadMs + sd * PREAMBLE_SYMS + TxGapMs + (k - 1) * sd,
           dur |-> (sd * 9) \div 10] ]

\* The schedule at the default frequencies.
Schedule(nibbles, sd) == ScheduleWith(nibbles, sd, DefaultBaseFreq, DefaultFreqSpacing)

\* totalMs = (t - txCtx.currentTime) * 1000 after the last tone
TotalMs(n, sd) == TxLeadMs + sd * PREAMBLE_SYMS + TxGapMs + n * sd

\* The loop going on at the scheduled end.
AnimDoneLate(elapsed, totalMs) == elapsed > totalMs

\* frac < 1 fails: Math.min(elapsed / totalMs, 1) has reached 1
AnimDone(elapsed, totalMs) == elapsed >= totalMs

\* transmit()
Transmit(req) ==
    LET p == TxPayload(req)
        nibbles == PacketNibbles(p.type, p.bytes, p.imgW, p.imgH)
    IN  /\ txCount < MaxTransmits
        /\ txCount' = txCount + 1
        /\ txReq' = req
        /\ txStatus' = p.status
        /\ IF p.ok
           THEN /\ txBusy' = TRUE
                /\ txTones' = Schedule(nibbles, symDurRef)
                /\ txAnim' = [on |-> TRUE, txStart |-> now + TxLeadMs,
                              totalMs |-> TotalMs(Len(nibbles), symDurRef),
                              ran |-> FALSE]
           ELSE UNCHANGED <<txBusy, txTones, txAnim>>
        /\ UNCHANGED <<codecVars, rxVars, otherVars, txProgress>>

\* anim(), run by requestAnimationFrame at clock reading now + dt.
AnimFrame(dt) ==
    /\ txAnim.on
    /\ now' = now + dt
    /\ LET elapsed == now + dt - txAnim.txStart
           done == AnimDone(elapsed, txAnim.totalMs)
       IN  /\ txProgress' = IF done THEN [num |-> 1, den |-> 1]
                            ELSE [num |-> elapsed, den |-> txAnim.totalMs]
           /\ txAnim' = [txAnim EXCEPT !.on = ~done, !.ran = TRUE]
           /\ txBusy' = IF done THEN FALSE ELSE txBusy
           /\ txStatus' = IF done THEN "DONE" ELSE txStatus
    /\ UNCHANGED <<codecVars, otherVars, cfgVars, refVars, uiVars, sessVars, timers, logVars,
                   sent, chan, air, txTones, txReq, txCount>>

\* What the user has put in the text field or loaded as the image.
TxTexts == {<<>>, <<72>>, <<233>>, <<72, 105>>}
TxImages == {<<>>, <<255, 216>>}
TxRequests ==
    { [mode |-> "text", text |-> t, image |-> i] : t \in TxTexts, i \in TxImages }
    \cup { [mode |-> "image", text |-> t, image |-> i] : t \in {<<>>, <<72>>}, i \in TxImages }

\* The time between two animation frames: a display frame, or a late one.
FrameGaps == {16, 40}

\* The transmit button: <button onClick={transmit} disabled={txBusy}>
TransmitClick ==
    /\ ~txBusy
    /\ \E req \in TxRequests : Transmit(req)

\* requestAnimationFrame(anim) comes due.
Frame ==
    /\ txAnim.on
    /\ \E dt \in FrameGaps : AnimFrame(dt)

InitTxOnly ==
    /\ InitCodec
    /\ InitRx
    /\ InitTx
    /\ InitOther
    /\ chan = "clean"
    /\ air = "quiet"
    /\ sent = CutPacket(Packet(TYPE_TEXT, <<>>, 0, 0), 0)

NextTx == TransmitClick \/ Frame

SpecTx == InitTxOnly /\ [][NextTx]_vars

\* ------------------------------------------------------------------------
\* Properties of the packet codec (checked under SpecCodec)
\* ------------------------------------------------------------------------

\* C1: for every byte sequence B, nibblesToBytes(bytesToNibbles(B)) = B, and
\* bytesToNibbles(B) has 2 * len(B) nibbles, the high nibble of each byte
\* before its low nibble.
C1_NibbleRoundTrip ==
    cOp = "nib" =>
        /\ cRes.bytes = cArg
        /\ Len(cRes.nibbles) = 2 * Len(cArg)
        /\ \A k \in 1..Len(cArg) :
             /\ cRes.nibbles[2 * k - 1] * 16 + cRes.nibbles[2 * k] = cArg[k]
             /\ cRes.nibbles[2 * k - 1] \in 0..15
             /\ cRes.nibbles[2 * k] \in 0..15

C1_Witness ==
    /\ cOp = "nib"
    /\ Len(cArg) >= 2
    /\ cArg[1] = 171
    /\ cArg[2] = 15
    /\ cRes.bytes = cArg

\* C2: for every type byte, every payload length in 0 .. 2^32-1 and every
\* width and height in 0 .. 65535, parseHeader(buildHeader(type, len, w, h))
\* is {type, payloadLen = len, imgW = w, imgH = h}.
C2_HeaderRoundTrip ==
    cOp = "hdr" =>
        /\ cRes.valid
        /\ cRes.type = cArg.type
        /\ cRes.payloadLen >= 0
        /\ cRes.payloadLen \div Pow2_16 = cArg.len[1]
        /\ cRes.payloadLen % Pow2_16 = cArg.len[2]
        /\ cRes.imgW = cArg.imgW
        /\ cRes.imgH = cArg.imgH

\* C3: parseHeader returns null for every input shorter than 16 bytes and for
\* every longer input whose first four bytes are not 0x41 0x43 0x53 0x54; it
\* returns a header for every input of 16 or more bytes that starts with
\* them, whatever the type byte and the other bytes are.
C3_ParseHeaderNull ==
    cOp = "parse" =>
        LET magicOk == /\ Len(cArg) >= 4
                       /\ cArg[1] = 65 /\ cArg[2] = 67
                       /\ cArg[3] = 83 /\ cArg[4] = 84
        IN  /\ (Len(cArg) < 16 \/ ~magicOk) => cRes = NullHeader
            /\ (Len(cArg) >= 16 /\ magicOk) => cRes # NullHeader /\ cRes.valid

C3_Witness ==
    /\ cOp = "parse"
    /\ Len(cArg) >= 16
    /\ cArg[1] = 65 /\ cArg[2] = 67 /\ cArg[3] = 83 /\ cArg[4] # 84
    /\ cRes = NullHeader

\* ------------------------------------------------------------------------
\* Properties of the receiver (checked under Spec unless said otherwise)
\* ------------------------------------------------------------------------

\* The step is a run of the interval callback (only a tick moves the clock).
IsTick == now' # now

\* An intact TEXT packet on the noiseless channel.
CleanText == chan = "clean" /\ sent.intact /\ sent.type = TYPE_TEXT

\* Texts (code points) that transmit() could have encoded.
Texts == SeqsUpTo({72, 233}, MaxPayloadLen)

\* C4: on the noiseless nibble-level channel, for every TEXT payload P: the
\* receiver in DATA closes one window per nibble of header ++ P, each
\* decoding to that nibble; at the close of the fifth silent window after
\* them it emits one success with payload P (type TEXT, length len(P)) and
\* is back in IDLE; no success is emitted before or after that tick.
C4_EndToEndText ==
    /\ [](CleanText /\ rxState = RX_DATA =>
            /\ Len(rxNibbles) <= Len(sent.nibbles)
            /\ rxNibbles = SubSeq(sent.nibbles, 1, Len(rxNibbles))
            /\ silenceCount < 5)
    /\ [][CleanText =>
            IF /\ IsTick
               /\ rxState = RX_DATA
               /\ rxNibbles = sent.nibbles
               /\ silenceCount = 4
               /\ closedWindow' # <<>>
               /\ \A k \in 1..Len(closedWindow') : closedWindow'[k] = NoSignal
            THEN /\ emitted' = <<"TEXT_OK">>
                 /\ rxOutput'.has
                 /\ rxOutput'.kind = "text"
                 /\ rxOutput'.payload = sent.payload
                 /\ Len(rxOutput'.payload) = Len(sent.payload)
                 /\ \A txt \in Texts :
                        Utf8Encode(txt) = sent.payload => rxOutput'.text = txt
                 /\ rxState' = RX_IDLE
            ELSE /\ rxOutput' = rxOutput
                 /\ \A k \in 1..Len(emitted') :
                        emitted'[k] \notin {"TEXT_OK", "IMAGE_OK"}]_vars

C4_Witness ==
    /\ CleanText
    /\ air = "quiet"
    /\ sent.payload = <<195, 169>>
    /\ emitted = <<"TEXT_OK">>
    /\ rxOutput.text = <<233>>
    /\ rxState = RX_IDLE

Occurrences(win, v) == Cardinality({ k \in 1..Len(win) : win[k] = v })

\* C6: when a DATA window closes with at least one non-null sample, the
\* nibble appended is a symbol with the highest occurrence count among the
\* window's samples, the lowest such symbol among ties; null samples never
\* count.  [3,3,3,7,null] gives 3 and [2,2,5,5] gives 2.
C6_MajorityVote ==
    [][(/\ closedWindow' # <<>>
        /\ \E k \in 1..Len(closedWindow') : closedWindow'[k] # NoSignal
        /\ rxState' = RX_DATA) =>
          /\ Len(rxNibbles') = Len(rxNibbles) + 1
          /\ SubSeq(rxNibbles', 1, Len(rxNibbles)) = rxNibbles
          /\ LET w == rxNibbles'[Len(rxNibbles')]
             IN  /\ w \in 0..15
                 /\ Occurrences(closedWindow', w) > 0
                 /\ \A v \in 0..15 :
                      /\ Occurrences(closedWindow', v) <= Occurrences(closedWindow', w)
                      /\ Occurrences(closedWindow', v) = Occurrences(closedWindow', w)
                           => w <= v
          /\ MajorityVote(SelectSeq(<<3, 3, 3, 7, NoSignal>>, LAMBDA x : x # NoSignal)) = 3
          /\ MajorityVote(SelectSeq(<<2, 2, 5, 5>>, LAMBDA x : x # NoSignal)) = 2]_vars

C6_Witness ==
    /\ rxState = RX_DATA
    /\ closedWindow = <<2, 2, 5, 5>>
    /\ rxNibbles # <<>>
    /\ rxNibbles[Len(rxNibbles)] = 2

\* C7 (under SpecFinalize): finalizePacket invoked while the accumulator,
\* cut to even length, holds fewer than 32 nibbles emits INCOMPLETE and no
\* decoded output, and leaves the session in IDLE with empty accumulator,
\* empty sample buffer and silence counter 0.
C7_FinalizeIncomplete ==
    [][(air # "called" /\ air' = "called" /\ (Len(rxNibbles) \div 2) * 2 < 32) =>
          /\ emitted' = <<"INCOMPLETE">>
          /\ rxStatus' = "INCOMPLETE"
          /\ rxOutput' = rxOutput
          /\ rxState' = RX_IDLE
          /\ rxNibbles' = <<>>
          /\ sampleBuf' = <<>>
          /\ silenceCount' = 0]_vars

C7_Witness ==
    /\ air = "called"
    /\ rxStatus = "INCOMPLETE"
    /\ emitted = <<"INCOMPLETE">>
    /\ Len(sent.nibbles) = 31
    /\ now > 4000
    /\ rxState = RX_IDLE

\* C8: on the first DATA tick with now - dataPhaseStart > 45000 ms the
\* receiver emits exactly one TIMEOUT, resets to IDLE and does nothing else
\* in that tick (no sample pushed, no window closed, no finalize); no other
\* tick emits TIMEOUT, and the ticks after it, in IDLE, emit and reset nothing.
C8_Timeout ==
    [][IsTick =>
          IF rxState = RX_DATA /\ now' - rxDataStart > 45000
          THEN /\ emitted' = <<"TIMEOUT">>
               /\ rxState' = RX_IDLE
               /\ rxNibbles' = <<>>
               /\ sampleBuf' = <<>>
               /\ silenceCount' = 0
               /\ closedWindow' = <<>>
               /\ rxOutput' = rxOutput
               /\ timers' = Append(timers, now' + 2000)
          ELSE /\ \A k \in 1..Len(emitted') : emitted'[k] # "TIMEOUT"
               /\ (rxState = RX_IDLE /\ air = "quiet") =>
                     /\ rxState' = RX_IDLE
                     /\ emitted' = <<>>
                     /\ progEmitted' = <<>>]_vars

C8_Witness ==
    /\ rxStatus = "TIMEOUT"
    /\ rxState = RX_IDLE
    /\ Len(sent.nibbles) = 31
    /\ emitted = <<>>
    /\ timers # <<>>

\* C9: after a confirmed sync, while the accumulator is empty, the tick that
\* closes the tenth consecutive silent window resets the receiver to IDLE
\* and emits the 'listening' status and nothing else; no earlier tick of
\* that data phase emits anything.
C9_Abandon ==
    [][(IsTick /\ rxState = RX_DATA /\ rxNibbles = <<>> /\ rxNibbles' = <<>>) =>
          IF /\ silenceCount >= 9
             /\ closedWindow' # <<>>
             /\ \A k \in 1..Len(closedWindow') : closedWindow'[k] = NoSignal
          THEN /\ rxState' = RX_IDLE
               /\ emitted' = <<"LISTENING">>
               /\ rxStatus' = "LISTENING"
               /\ rxOutput' = rxOutput
               /\ timers' = timers
               /\ sampleBuf' = <<>>
               /\ silenceCount' = 0
          ELSE /\ rxState' = RX_DATA
               /\ emitted' = <<>>
               /\ silenceCount' <= 9]_vars

C9_Witness ==
    /\ rxState = RX_IDLE
    /\ air = "quiet"
    /\ sent.nibbles = <<>>
    /\ emitted = <<"LISTENING">>
    /\ rxStatus = "LISTENING"
    /\ Len(closedWindow) = 5
    /\ timers = <<>>

\* An intact IMAGE packet with a payload on the noiseless channel.
CleanImage ==
    chan = "clean" /\ sent.intact /\ sent.type = TYPE_IMAGE /\ Len(sent.payload) >= 1

\* The progress values a handler showed (visible ones), in order.
Shown(progs) == SelectSeq(progs, LAMBDA p : p.visible)

\* C10: for every IMAGE packet with payload length >= 1, received one nibble
\* per window: each progress value reported is at least the one reported
\* before it; 100% is reported exactly by the tick that brings the
\* accumulator to 2 * (16 + declared length) nibbles, and that tick
\* finalizes the packet.
C10_ImageProgress ==
    [][(CleanImage /\ IsTick) =>
          LET shown == Shown(progEmitted')
              total == 2 * (16 + Len(sent.payload))
              full == \E k \in 1..Len(shown) : shown[k].num = 100 * shown[k].den
          IN  /\ Len(shown) <= 1
              /\ \A k \in 1..Len(shown) :
                   /\ 0 <= shown[k].num
                   /\ shown[k].num <= 100 * shown[k].den
                   /\ rxImgProg.visible =>
                        rxImgProg.num * shown[k].den <= shown[k].num * rxImgProg.den
              /\ full <=> (/\ rxState = RX_DATA
                           /\ Len(rxNibbles) + 1 = total
                           /\ closedWindow' # <<>>)
              /\ full => /\ emitted' = <<"IMAGE_OK">>
                         /\ rxState' = RX_IDLE
                         /\ rxOutput'.kind = "image"
                         /\ rxOutput'.payload = sent.payload]_vars

C10_Witness ==
    /\ CleanImage
    /\ Len(sent.payload) = 2
    /\ emitted = <<"IMAGE_OK">>
    /\ Shown(progEmitted) = << Prog(TRUE, 100, 1) >>
    /\ rxState = RX_IDLE

\* ------------------------------------------------------------------------
\* Properties of starting and stopping a session (checked under SpecSession)
\* ------------------------------------------------------------------------

\* C11: in the state right after stopListening() returns, whatever state the
\* receiver was in, the machine state is IDLE and the nibble accumulator, the
\* sample buffer, the silence counter and the sync timestamps are empty or
\* zero.
C11_StopDiscardsSession ==
    (emitted = <<"INACTIVE">>) =>
        /\ rxState = RX_IDLE
        /\ rxNibbles = <<>>
        /\ sampleBuf = <<>>
        /\ silenceCount = 0
        /\ preambleAt = 0
        /\ preambleEndsAt = 0
        /\ rxDataStart = 0

\* C12: after any interleaving of listen-button presses and answers of the
\* capture device, at most one sampling interval is running, and none is
\* running right after stopListening() has returned.
C12_OneReceiveSession ==
    /\ intervals <= 1
    /\ (emitted = <<"INACTIVE">>) => intervals = 0

\* C19: when opening the capture device fails in startListening(), the
\* error is set as the status, and the listening mark, the sampling
\* intervals, the decode state, the decoded output and the pending callbacks
\* are left as they were.
C19_DeviceErrorAbortsStart ==
    [][MicDenied =>
          /\ emitted' = <<"MIC_ERROR">>
          /\ isListening' = isListening
          /\ rxStatus' = "MIC_ERROR"
          /\ intervals' = intervals
          /\ refLive' = refLive
          /\ UNCHANGED <<refVars, rxOutput, rxImgProg, timers>>]_vars

C19_Witness ==
    /\ emitted = <<"MIC_ERROR">>
    /\ rxState = RX_DATA
    /\ sampleBuf # <<>>
    /\ isListening

C19_WitnessNotListening ==
    /\ emitted = <<"MIC_ERROR">>
    /\ ~isListening
    /\ intervals = 0

\* ------------------------------------------------------------------------
\* Properties of the transmitter (checked under SpecTx)
\* ------------------------------------------------------------------------

\* The progress shown is 100%.
TxFull(p) == p.num = p.den

\* C14: over one transmission each progress value set by the loop is at
\* least the one it set before; the loop sets 100% exactly on the frame at
\* which the time since txStart has reached the scheduled total, and exactly
\* on that frame it ends and the transmitter is marked not busy.
C14_TxProgress ==
    [][(txAnim.on /\ now' # now) =>
          LET elapsed == now' - txAnim.txStart
          IN  /\ txAnim.ran =>
                    txProgress.num * txProgress'.den <= txProgress'.num * txProgress.den
              /\ TxFull(txProgress') <=> elapsed >= txAnim.totalMs
              /\ TxFull(txProgress') <=> ~txBusy'
              /\ TxFull(txProgress') <=> ~txAnim'.on
              /\ txBusy]_vars

C14_Witness ==
    /\ TxFull(txProgress)
    /\ ~txBusy
    /\ txStatus = "DONE"
    /\ now - txAnim.txStart = txAnim.totalMs

\* A request that transmit() turns down: no text, or no image loaded.
EmptyRequest(req) ==
    \/ req.mode = "text" /\ req.text = <<>>
    \/ req.mode = "image" /\ req.image = <<>>

C18_HeaderLayout ==
    (cOp = "build") =>
        LET hi == cArg.len[1]
            lo == cArg.len[2]
            w == IF cArg.given THEN cArg.imgW ELSE 0
            h == IF cArg.given THEN cArg.imgH ELSE 0
        IN  cRes = << 65, 67, 83, 84, cArg.type,
                      hi \div 256, hi % 256, lo \div 256, lo % 256,
                      w \div 256, w % 256, h \div 256, h % 256, 0, 0, 0 >>

C18_Witness ==
    /\ cOp = "build"
    /\ cArg.len = U32(258, 772)
    /\ cArg.given
    /\ cArg.imgW = 256
    /\ cRes[6] = 1 /\ cRes[7] = 2 /\ cRes[8] = 3 /\ cRes[9] = 4
    /\ cRes[10] = 1 /\ cRes[11] = 0

C18_WitnessOmitted ==
    /\ cOp = "build"
    /\ ~cArg.given
    /\ cArg.imgW = 48
    /\ cRes[10] = 0 /\ cRes[11] = 0

\* The largest of the 16 magnitudes.
MaxMag(mags) == CHOOSE m \in { mags[k] : k \in 0..15 } : \A k \in 0..15 : mags[k] <= m

\* The result names the lowest channel holding the largest magnitude.
IsArgMax(res, mags) ==
    /\ res.symbol \in 0..15
    /\ res.magnitude = MaxMag(mags)
    /\ mags[res.symbol] = MaxMag(mags)
    /\ \A k \in 0..15 : mags[k] = MaxMag(mags) => res.symbol <= k

\* C20 as stated: for every magnitude vector the detector returns the index
\* in 0..15 of the maximum magnitude, the lowest such index on a tie, and
\* that maximum as the best magnitude.
C20_DetectorArgMax ==
    (cOp = "detect") => IsArgMax(cRes, cArg)

\* C20 as amended: for every magnitude vector with a magnitude above 0 the
\* detector returns the index in 0..15 of the maximum magnitude, the lowest
\* such index on a tie, and that maximum as the best magnitude; when all 16
\* magnitudes are 0 it returns the symbol -1 with the magnitude 0.
C20_DetectorArgMaxOrNone ==
    (cOp = "detect") =>
        IF MaxMag(cArg) > 0 THEN IsArgMax(cRes, cArg)
        ELSE cRes = [symbol |-> -1, magnitude |-> 0]

C20_Witness ==
    /\ cOp = "detect"
    /\ cArg[3] = 500 /\ cArg[15] = 500 /\ cArg[0] = 10
    /\ cRes.symbol = 3

C20_WitnessSilent ==
    /\ cOp = "detect"
    /\ MaxMag(cArg) = 0
    /\ cRes.symbol = -1

\* ------------------------------------------------------------------------
\* A failed reception followed by a second transmission
\* ------------------------------------------------------------------------
ErrorOutcomes == {"INCOMPLETE", "BAD_HEADER", "UNKNOWN_TYPE", "TIMEOUT"}

\* First transmissions that end in an error outcome: a stream that stops
\* after 1 or 31 nibbles, a stream with a wrong magic nibble, and a packet
\* of a type this receiver does not know.
RecoverPackets ==
    { CutPacket(Packet(TYPE_TEXT, <<72, 169>>, 0, 0), n) : n \in {1, 31} }
    \cup { GarbledPacket(Packet(TYPE_TEXT, <<72>>, 0, 0), 2),
           Packet(UnknownType, <<72>>, 48, 48) }

\* The second transmission: the text "Hi", marked with the outcome it follows.
RetryPacket(outcome) ==
    [ type |-> TYPE_TEXT, payload |-> <<72, 105>>, imgW |-> 0, imgH |-> 0,
      nibbles |-> PacketNibbles(TYPE_TEXT, <<72, 105>>, 0, 0), intact |-> TRUE,
      after |-> outcome ]

IsRetry == "after" \in DOMAIN sent

\* finalizePacket() called on a data phase that holds less than a header
\* once the stream has gone silent for five windows.
IncompleteCall ==
    /\ intervals > 0
    /\ rxState = RX_DATA
    /\ Len(rxNibbles) < 2 * HEADER_LEN
    /\ Len(rxNibbles) = Len(sent.nibbles)
    /\ silenceCount = FinalizeSilence
    /\ Commit(FinalizePacket(Session, now))
    /\ air' = "quiet"
    /\ UNCHANGED <<codecVars, txVars, otherVars, cfgVars, sessVars, now, sent, chan>>

\* The sender transmits again as soon as the receiver shows the error, so
\* that the cool-down callback of the error runs during the second reception.
Retransmit ==
    /\ ~IsRetry
    /\ air = "quiet"
    /\ rxState = RX_IDLE
    /\ emitted # <<>>
    /\ rxStatus \in ErrorOutcomes
    /\ sent' = RetryPacket(rxStatus)
    /\ air' = "preamble"
    /\ emitted' = <<>>
    /\ progEmitted' = <<>>
    /\ closedWindow' = <<>>
    /\ UNCHANGED <<codecVars, txVars, otherVars, cfgVars, refVars, uiVars, sessVars, timers,
                   now, chan>>

InitRecover ==
    /\ InitCodec
    /\ InitRx
    /\ InitTx
    /\ InitOther
    /\ chan = "clean"
    /\ air = "preamble"
    /\ sent \in RecoverPackets

NextRecover ==
    ListenClick \/ MicGranted \/ SampleTick \/ CooldownFire \/ IncompleteCall \/ Retransmit

\* The clock of a sampling tick: a running interval fires again one period
\* after its last run.
SampleClock ==
    /\ intervals > 0
    /\ Observed
    /\ now' \in { now + d : d \in TickGaps }

\* The interval started by startSampling keeps firing until it is cleared.
SpecRecover == InitRecover /\ [][NextRecover]_vars /\ WF_now(SampleClock)

\* ------------------------------------------------------------------------
\* Preamble detection: a 500 Hz tone that comes and goes while in IDLE
\* ------------------------------------------------------------------------
\* The clock reading up to which detection is followed.
MaxDetectMs == 480

\* A tone heard from time on until time off, and once more from time again.
ToneScenario(on, off, again) ==
    [ type |-> TYPE_TEXT, payload |-> <<>>, imgW |-> 0, imgH |-> 0,
      nibbles |-> <<>>, intact |-> FALSE,
      on |-> on, off |-> off, again |-> again ]

ToneScenarios ==
    { ToneScenario(on, on + len, on + len + pause) :
        on \in {10, 24, 40}, len \in {20, 100, 120, 121, 130, 400},
        pause \in {10, 24, 50} }

\* Whether the preamble band is above the threshold at clock reading t.
ToneAt(t) == (sent.on <= t /\ t < sent.off) \/ sent.again <= t

\* A tick of the sampling interval in RX_IDLE, one period after the last.
DetectTick ==
    /\ rxState = RX_IDLE
    /\ now < MaxDetectMs
    /\ \E mp \in (IF ToneAt(now + sampleMs) THEN HotMags ELSE ColdMags) :
         Tick(sampleMs, mp, DetSilent)

InitDetect ==
    /\ InitCodec
    /\ InitRx
    /\ InitTx
    /\ InitOther
    /\ chan = "clean"
    /\ air = "preamble"
    /\ sent \in ToneScenarios

NextDetect == ListenClick \/ MicGranted \/ DetectTick

SpecDetect == InitDetect /\ [][NextDetect]_vars

\* ------------------------------------------------------------------------
\* Streams whose header declares another length than the stream holds
\* ------------------------------------------------------------------------
\* A header declaring len (a U32) followed by the bytes of body and by the
\* nibbles of tail.
DeclaredPacket(type, len, body, tail) ==
    [ type |-> type, payload |-> body, imgW |-> 48, imgH |-> 48,
      nibbles |-> BytesToNibbles(BuildHeader(type, ToInt32(len), 48, 48) \o body) \o tail,
      intact |-> FALSE, declared |-> len ]

\* Declared lengths: 0, 1, 2, 3, 2^24, 2^31 and 2^32-1.
DeclaredLens ==
    { U32(0, 0), U32(0, 1), U32(0, 2), U32(0, 3), U32(256, 0), U32(32768, 0),
      U32(65535, 65535) }

DeclaredPackets ==
    { DeclaredPacket(ty, len, body, tail) :
        ty \in {TYPE_TEXT, TYPE_IMAGE}, len \in DeclaredLens,
        body \in {<<>>, <<72, 105>>}, tail \in {<<>>, <<4>>} }

InitDeclared ==
    /\ InitCodec
    /\ InitRx
    /\ InitTx
    /\ InitOther
    /\ chan = "clean"
    /\ air = "preamble"
    /\ sent \in DeclaredPackets

SpecDeclared == InitDeclared /\ [][Next]_vars

\* ------------------------------------------------------------------------
\* The chirp program listening: detection of the alternating preamble
\* ------------------------------------------------------------------------
\* The number of ticks with freely chosen readings for which the chirp
\* receiver is followed in IDLE.
MaxChirpTicks == 8

\* startListening() of the chirp program, once the analyser is set up.
ChirpStartListening ==
    /\ ~chirpRx.isListening
    /\ chirpRx' = ChirpResetRxState([chirpRx EXCEPT !.isListening = TRUE,
                                                    !.rxStatus = "LISTENING"])
    /\ UNCHANGED <<codecVars, rxVars, txVars, fadeRx>>

\* One run of the chirp program's setInterval callback, reading magA and
\* magB (thousandths) for the two preamble tones; followed up to the entry
\* into RX_DATA.
ChirpTick(magA, magB) ==
    /\ chirpRx.isListening
    /\ chirpRx.rxState # RX_DATA
    /\ LET t == chirpRx.now + ChirpSampleMs
           r == IF chirpRx.rxState = RX_IDLE
                THEN ChirpIdleStep(chirpRx, t, magA, magB)
                ELSE ChirpSyncStep(chirpRx, t)
       IN  chirpRx' = [r EXCEPT !.now = t, !.debugInfo = [a |-> magA, b |-> magB]]
    /\ UNCHANGED <<codecVars, rxVars, txVars, fadeRx>>

\* Readings of the two tones: one tone strong, both equally strong, one at
\* the threshold, both just above it.
ChirpMagPairs == { <<300, 0>>, <<0, 300>>, <<300, 300>>, <<80, 40>>, <<81, 90>> }

\* What the chirp receiver hears: tone A alone on the first lead ticks,
\* anything afterwards.
ChirpScenario(lead) ==
    [ type |-> TYPE_TEXT, payload |-> <<>>, imgW |-> 0, imgH |-> 0,
      nibbles |-> <<>>, intact |-> FALSE, lead |-> lead ]

ChirpScenarios == { ChirpScenario(lead) : lead \in {0, 17} }

ChirpListenTick ==
    LET k == chirpRx.now \div ChirpSampleMs + 1
    IN  /\ chirpRx.rxState = RX_SYNC \/ k <= sent.lead + MaxChirpTicks
        /\ \E m \in (IF chirpRx.rxState = RX_SYNC THEN { <<300, 300>>, <<80, 40>> }
                      ELSE IF k <= sent.lead THEN { <<300, 0>> }
                      ELSE ChirpMagPairs) :
             ChirpTick(m[1], m[2])

InitChirp ==
    /\ InitCodec
    /\ InitRx
    /\ InitTx
    /\ InitOther
    /\ chan = "clean"
    /\ air = "quiet"
    /\ sent \in ChirpScenarios

\* playTone calls of the chirp program's transmit(), times in ms after
\* ctx.currentTime: A and B alternating, the guard gap, one tone per nibble.
ChirpSchedule(nibbles, sd) ==
    [ k \in 1..(2 * PREAMBLE_PAIRS) |->
        [freq |-> IF k % 2 = 1 THEN PRE_TONE_A ELSE PRE_TONE_B,
         start |-> TxLeadMs + (k - 1) * sd,
         dur |-> (sd * 9) \div 10] ]
    \o [ k \in 1..Len(nibbles) |->
          [freq |-> DefaultBaseFreq + nibbles[k] * DefaultFreqSpacing,
           start |-> TxLeadMs + 2 * PREAMBLE_PAIRS * sd + ChirpTxGapMs + (k - 1) * sd,
           dur |-> (sd * 88) \div 100] ]

NextChirp == ChirpStartListening \/ ChirpListenTick

SpecChirp == InitChirp /\ [][NextChirp]_vars

\* ------------------------------------------------------------------------
\* The three receivers under echo: after the preamble the preamble band may
\* stay above the threshold on every tick
\* ------------------------------------------------------------------------
\* The clock reading up to which a receiver is followed in IDLE, and beyond
\* which the clock of the third program, which its RX_PREAMBLE branch never
\* reads, is not advanced any further.
MaxEchoMs == 200

\* What is on the channel: a preamble, then either its echo on every later
\* tick (echo) or any reading.
EchoScenario(echo) ==
    [ type |-> TYPE_TEXT, payload |-> <<>>, imgW |-> 0, imgH |-> 0,
      nibbles |-> <<>>, intact |-> FALSE, echo |-> echo ]

\* One page is open at a time: a receiver starts only while no other one
\* listens.
EchoListenClick ==
    /\ ~chirpRx.isListening
    /\ ~fadeRx.isListening
    /\ ListenClick

EchoFollowed == rxState = RX_PREAMBLE \/ (rxState = RX_IDLE /\ now < MaxEchoMs)

\* A tick of the receiver of App.jsx, followed up to the entry into RX_DATA.
EchoTick ==
    /\ EchoFollowed
    /\ \E mp \in (IF rxState = RX_PREAMBLE /\ sent.echo THEN HotMags
                  ELSE ColdMags \cup HotMags),
          det \in {DetSilent, DetHot(3)} :
         Tick(sampleMs, mp, det)

\* The clock of that tick.
EchoClock ==
    /\ intervals > 0
    /\ EchoFollowed
    /\ now' = now + sampleMs

EchoChirpStart ==
    /\ ~isListening
    /\ micPending = 0
    /\ ~fadeRx.isListening
    /\ ChirpStartListening

EchoChirpTick ==
    /\ chirpRx.rxState = RX_SYNC \/ chirpRx.now < MaxEchoMs
    /\ \E m \in (IF chirpRx.rxState = RX_SYNC /\ sent.echo
                 THEN { <<300, 0>>, <<300, 300>> }
                 ELSE { <<300, 0>>, <<0, 300>>, <<80, 40>> }) :
         ChirpTick(m[1], m[2])

\* startListening() of the third program after getUserMedia resolved.
FadeStartListening ==
    /\ ~fadeRx.isListening
    /\ fadeRx' = FadeResetRxState([fadeRx EXCEPT !.isListening = TRUE,
                                                  !.rxStatus = "LISTENING"])
    /\ UNCHANGED <<codecVars, rxVars, txVars, chirpRx>>

\* One run of the third program's setInterval callback, reading mp
\* (thousandths) in the preamble band; followed up to the entry into
\* RX_DATA.
FadeTick(mp) ==
    /\ fadeRx.isListening
    /\ fadeRx.rxState # RX_DATA
    /\ LET t == fadeRx.now + FadeSampleMs
           r == IF fadeRx.rxState = RX_IDLE
                THEN FadeIdleStep(fadeRx, t, mp)
                ELSE FadePreambleStep(fadeRx, t, mp)
       IN  fadeRx' = [r EXCEPT !.now = IF fadeRx.now < 2 * MaxEchoMs THEN t ELSE @]
    /\ UNCHANGED <<codecVars, rxVars, txVars, chirpRx>>

EchoFadeStart ==
    /\ ~isListening
    /\ micPending = 0
    /\ ~chirpRx.isListening
    /\ FadeStartListening

\* Readings of the preamble band: none, just below, at and above half the
\* threshold, at and above the threshold.
FadeMags == {0, 24, 25, 50, 51, 500}

EchoFadeTick ==
    /\ fadeRx.rxState = RX_PREAMBLE \/ fadeRx.now < MaxEchoMs
    /\ \E mp \in (IF fadeRx.rxState = RX_PREAMBLE /\ sent.echo THEN {51, 500}
                  ELSE FadeMags) :
         FadeTick(mp)

InitEcho ==
    /\ InitCodec
    /\ InitRx
    /\ InitTx
    /\ InitOther
    /\ chan = "clean"
    /\ air = "preamble"
    /\ sent \in { EchoScenario(e) : e \in BOOLEAN }

NextEcho ==
    \/ EchoListenClick
    \/ MicGranted
    \/ EchoTick
    \/ EchoChirpStart
    \/ EchoChirpTick
    \/ EchoFadeStart
    \/ EchoFadeTick

\* Each program's interval keeps firing until it is cleared.
SpecEcho ==
    /\ InitEcho
    /\ [][NextEcho]_vars
    /\ WF_now(EchoClock)
    /\ WF_chirpRx(EchoChirpTick)
    /\ WF_fadeRx(EchoFadeTick)

\* ------------------------------------------------------------------------
\* Configuration sliders moved while a packet is being received
\* ------------------------------------------------------------------------
\* The text "H", with the moment the user moves a slider: in window win of
\* the data phase (counted from 0), after pos samples of that window.
ConfigScenario(knob, value, win, pos) ==
    [ type |-> TYPE_TEXT, payload |-> <<72>>, imgW |-> 0, imgH |-> 0,
      nibbles |-> PacketNibbles(TYPE_TEXT, <<72>>, 0, 0), intact |-> TRUE,
      knob |-> knob, value |-> value, win |-> win, pos |-> pos ]

\* Slider values: symbol durations of 60 and 240 ms, thresholds of 0.01
\* and 0.2.
ConfigScenarios ==
    { ConfigScenario("symDuration", v, w, p) : v \in {60, 240}, w \in {0, 1}, p \in {1, 3} }
    \cup { ConfigScenario("threshold", v, w, p) : v \in {10, 200}, w \in {0, 1}, p \in {1, 3} }

SliderMoves ==
    /\ rxState = RX_DATA
    /\ symDurRef = DefaultSymDuration
    /\ threshRef = DefaultThreshold
    /\ Len(rxNibbles) = sent.win
    /\ Len(sampleBuf) = sent.pos

\* setSymDuration(v) from the slider; the effect writes symDurRef.current
\* on the following render.
SetSymDuration ==
    /\ SliderMoves
    /\ sent.knob = "symDuration"
    /\ symDurRef' = sent.value
    /\ emitted' = <<>>
    /\ progEmitted' = <<>>
    /\ closedWindow' = <<>>
    /\ UNCHANGED <<codecVars, txVars, otherVars, threshRef, refVars, uiVars, sessVars,
                   timers, envVars>>

\* setThreshold(v) from the slider; the effect writes threshRef.current on
\* the following render.
SetThreshold ==
    /\ SliderMoves
    /\ sent.knob = "threshold"
    /\ threshRef' = sent.value
    /\ emitted' = <<>>
    /\ progEmitted' = <<>>
    /\ closedWindow' = <<>>
    /\ UNCHANGED <<codecVars, txVars, otherVars, symDurRef, refVars, uiVars, sessVars,
                   timers, envVars>>

\* A data tone heard at a magnitude of 0.1.
DetMid(sym) == [symbol |-> sym, magnitude |-> 100]

\* The sampling clock while the packet arrives at that magnitude.
ConfigTick ==
    /\ Observed
    /\ \E mp \in PreambleMags,
          det \in (IF rxState = RX_DATA /\ Len(rxNibbles) < Len(sent.nibbles)
                   THEN { DetMid(sent.nibbles[Len(rxNibbles) + 1]) }
                   ELSE Detections) :
         Tick(sampleMs, mp, det)

InitConfig ==
    /\ InitCodec
    /\ InitRx
    /\ InitTx
    /\ InitOther
    /\ chan = "clean"
    /\ air = "preamble"
    /\ sent \in ConfigScenarios

NextConfig ==
    ListenClick \/ MicGranted \/ ConfigTick \/ CooldownFire \/ SetSymDuration \/ SetThreshold

SpecConfig == InitConfig /\ [][NextConfig]_vars

\* ------------------------------------------------------------------------
\* The clear button pressed while a packet is received or shown
\* ------------------------------------------------------------------------
\* The clock reading up to which the ticks after a cleared transmission are
\* followed.
MaxRestMs == 1000

\* The output cleared without the session being reset.
ClearOutputOnly ==
    /\ air \notin {"quiet", "rest"} \/ rxOutput.has
    /\ Commit(SetRxImgProg([Session EXCEPT !.rxOutput = NoOutput], HiddenProg))
    /\ air' = IF air = "quiet" THEN "quiet" ELSE "rest"
    /\ UNCHANGED <<codecVars, txVars, otherVars, cfgVars, sessVars, now, sent, chan>>

\* clearOutput(), pressed once while a transmission is on the channel or
\* an output is shown. What is left of a transmission (rest) goes on
\* arriving; it is not followed as a preamble.
ClearOutput ==
    /\ air \notin {"quiet", "rest"} \/ rxOutput.has
    /\ Commit(ResetRxState(SetRxImgProg([Session EXCEPT !.rxOutput = NoOutput],
                                        HiddenProg)))
    /\ air' = IF air = "quiet" THEN "quiet" ELSE "rest"
    /\ UNCHANGED <<codecVars, txVars, otherVars, cfgVars, sessVars, now, sent, chan>>

\* The sampling clock while a transmission or a pending callback is
\* followed.
HeardTick ==
    /\ air # "rest"
    /\ SampleTick

\* The sampling clock while the rest of a cleared transmission arrives: the
\* preamble band is cold, the data tones are heard.
RestTick ==
    /\ air = "rest"
    /\ now < MaxRestMs
    /\ \E mp \in ColdMags, det \in {DetSilent, DetHot(3)} : Tick(sampleMs, mp, det)

NextClear ==
    ListenClick \/ MicGranted \/ HeardTick \/ RestTick \/ CooldownFire \/ ClearOutput

SpecClear == Init /\ [][NextClear]_vars

\* ------------------------------------------------------------------------
\* Transmitter and receiver set to the same symbol duration
\* ------------------------------------------------------------------------
MaxSchedulePayload == 2

\* Symbol durations the input field accepts: its minimum, the default, its
\* maximum.
SymDurations == {30, DefaultSymDuration, 400}
BaseFreqs == {400, DefaultBaseFreq}
FreqSpacings == {50, DefaultFreqSpacing}

SchedulePayloads == SeqsUpTo(ByteSamples, MaxSchedulePayload)

\* setSymDuration(v) typed into the field before anything is started.
TypeSymDuration ==
    /\ ~isListening
    /\ micPending = 0
    /\ intervals = 0
    /\ cOp = "none"
    /\ symDurRef = DefaultSymDuration
    /\ \E v \in SymDurations \ {DefaultSymDuration} : symDurRef' = v
    /\ UNCHANGED <<codecVars, txVars, otherVars, threshRef, refVars, uiVars, sessVars,
                   timers, logVars, envVars>>

\* transmit() up to the last playTone call, for a text, at the symbol
\* duration set and at base frequency and spacing of its own.
ScheduleCall ==
    /\ cOp = "none"
    /\ \E payload \in SchedulePayloads, base \in BaseFreqs, spacing \in FreqSpacings :
         /\ cArg' = [payload |-> payload, sd |-> symDurRef, base |-> base,
                     spacing |-> spacing]
         /\ cRes' = ScheduleWith(PacketNibbles(TYPE_TEXT, payload, 0, 0), symDurRef,
                                 base, spacing)
    /\ cOp' = "transmit"
    /\ UNCHANGED <<rxVars, txVars, otherVars>>

\* The sampling clock while the preamble is heard, up to its confirmation.
PreambleTick ==
    /\ rxState = RX_IDLE
    /\ Tick(sampleMs, 500, DetSilent)

InitSchedule ==
    /\ InitCodec
    /\ InitRx
    /\ InitTx
    /\ InitOther
    /\ chan = "clean"
    /\ air = "preamble"
    /\ sent = Packet(TYPE_TEXT, <<>>, 0, 0)

NextSchedule == TypeSymDuration \/ ScheduleCall \/ ListenClick \/ MicGranted \/ PreambleTick

SpecSchedule == InitSchedule /\ [][NextSchedule]_vars

\* ------------------------------------------------------------------------
\* The data windows at every symbol duration the input allows
\* ------------------------------------------------------------------------
\* The number of data windows followed.
MaxWindows == 6

\* <input type="number" min="30" max="400" step="10">
MinSymDuration == 30
MaxSymDuration == 400
SymDurationStep == 10
AllowedSymDurations ==
    { d \in MinSymDuration..MaxSymDuration : (d - MinSymDuration) % SymDurationStep = 0 }

\* setSymDuration(v) from the input, before listening is started.
SetSymDurationFirst ==
    /\ ~isListening
    /\ micPending = 0
    /\ intervals = 0
    /\ symDurRef = DefaultSymDuration
    /\ \E v \in AllowedSymDurations \ {DefaultSymDuration} : symDurRef' = v
    /\ UNCHANGED <<codecVars, txVars, otherVars, threshRef, refVars, uiVars, sessVars,
                   timers, logVars, envVars>>

\* The sampling clock, firing exactly one period after its last run, up to
\* the close of the last window followed.
WindowTick ==
    /\ rxState = RX_DATA => Len(rxNibbles) < MaxWindows
    /\ SampleTick

InitWindows ==
    /\ InitCodec
    /\ InitRx
    /\ InitTx
    /\ InitOther
    /\ chan = "clean"
    /\ air = "preamble"
    /\ sent = Packet(TYPE_TEXT, <<72>>, 0, 0)

NextWindows == SetSymDurationFirst \/ ListenClick \/ MicGranted \/ WindowTick

SpecWindows == InitWindows /\ [][NextWindows]_vars

\* ------------------------------------------------------------------------
\* The detector's result classified against thresholds down to 0
\* ------------------------------------------------------------------------
\* The clock reading up to which the data samples are followed.
MaxThresholdMs == 850

\* Thresholds (thousandths) typed into the sensitivity input: 0, 0.01 and
\* 0.2, beside the default.
ThresholdValues == {0, 10, 200}

\* Magnitude snapshots: silence, channel 3 at 0.001, channel 12 at 0.5, and
\* channels 3 and 12 both at 0.2 over a floor of 0.01.
SnapshotVectors ==
    { [ k \in 0..15 |-> 0 ],
      [ k \in 0..15 |-> IF k = 3 THEN 1 ELSE 0 ],
      [ k \in 0..15 |-> IF k = 12 THEN 500 ELSE 0 ],
      [ k \in 0..15 |-> IF k \in {3, 12} THEN 200 ELSE 10 ] }

\* setThreshold(v) from the input, before listening is started.
SetThresholdFirst ==
    /\ ~isListening
    /\ micPending = 0
    /\ intervals = 0
    /\ threshRef = DefaultThreshold
    /\ \E v \in ThresholdValues : threshRef' = v
    /\ UNCHANGED <<codecVars, txVars, otherVars, symDurRef, refVars, uiVars, sessVars,
                   timers, logVars, envVars>>

\* The sampling clock: a loud preamble, then any snapshot on every tick,
\* passed through detectSymbol().
SnapshotTick ==
    /\ now < MaxThresholdMs
    /\ \E mags \in SnapshotVectors : Tick(sampleMs, 500, DetectSymbol(mags))

NextThreshold == SetThresholdFirst \/ ListenClick \/ MicGranted \/ SnapshotTick

SpecThreshold == InitWindows /\ [][NextThreshold]_vars

\* ------------------------------------------------------------------------
\* Properties of finalizePacket's outcomes
\* ------------------------------------------------------------------------

\* Byte k (from 1) of a nibble stream, high nibble first.
ByteAt(nibs, k) == nibs[2 * k - 1] * 16 + nibs[2 * k]

\* The payload a nibble stream holds: the bytes after the 16 header bytes, as
\* many as the header declares (bytes 6..9, big-endian) and the stream has.
HeldPayload(nibs) ==
    LET declared == ((ByteAt(nibs, 6) * 256 + ByteAt(nibs, 7)) * 256
                      + ByteAt(nibs, 8)) * 256 + ByteAt(nibs, 9)
        held == Len(nibs) \div 2 - HEADER_LEN
    IN  [ k \in 1..(IF declared < held THEN declared ELSE held) |->
            ByteAt(nibs, HEADER_LEN + k) ]

\* C16 (checked under SpecFinalize): finalizePacket called with at least 32
\* nibbles emits exactly one outcome: BAD_HEADER if the first four bytes are
\* not the magic; otherwise success with the decoded text if the type byte is
\* 0x54, success with the header's width and height if it is 0x49, and
\* UNKNOWN_TYPE for any other type byte; BAD_HEADER and UNKNOWN_TYPE leave
\* the decoded output as it was.
C16_FinalizeOutcome ==
    [][(air # "called" /\ air' = "called" /\ Len(rxNibbles) >= 2 * HEADER_LEN) =>
          IF \E i \in 1..4 : ByteAt(rxNibbles, i) # MAGIC[i]
          THEN emitted' = <<"BAD_HEADER">> /\ rxOutput' = rxOutput
          ELSE IF ByteAt(rxNibbles, 5) = 84
          THEN /\ emitted' = <<"TEXT_OK">>
               /\ rxOutput'.has
               /\ rxOutput'.kind = "text"
               /\ rxOutput'.text = Utf8Decode(HeldPayload(rxNibbles))
          ELSE IF ByteAt(rxNibbles, 5) = 73
          THEN /\ emitted' = <<"IMAGE_OK">>
               /\ rxOutput'.has
               /\ rxOutput'.kind = "image"
               /\ rxOutput'.imgW = ByteAt(rxNibbles, 10) * 256 + ByteAt(rxNibbles, 11)
               /\ rxOutput'.imgH = ByteAt(rxNibbles, 12) * 256 + ByteAt(rxNibbles, 13)
               /\ rxOutput'.payload = HeldPayload(rxNibbles)
          ELSE emitted' = <<"UNKNOWN_TYPE">> /\ rxOutput' = rxOutput]_vars

C16_Witness ==
    /\ air = "called"
    /\ emitted = <<"UNKNOWN_TYPE">>
    /\ ~rxOutput.has
    /\ sent.type = UnknownType

C16_WitnessBadHeader == air = "called" /\ emitted = <<"BAD_HEADER">> /\ ~rxOutput.has
C16_WitnessText ==
    air = "called" /\ emitted = <<"TEXT_OK">> /\ rxOutput.text # <<>>
C16_WitnessImage ==
    air = "called" /\ emitted = <<"IMAGE_OK">> /\ rxOutput.imgW = 48

\* The outcomes finalizePacket emits.
FinalizeOutcomes == {"INCOMPLETE", "BAD_HEADER", "UNKNOWN_TYPE", "TEXT_OK", "IMAGE_OK"}

\* C17 (checked under Spec): after every finalize outcome (INCOMPLETE,
\* BAD_HEADER, UNKNOWN_TYPE, TEXT success, IMAGE success) the session is in
\* IDLE and the cool-down callback that emits the 'waiting for preamble'
\* status is scheduled.
C17_FinalizeCooldown ==
    (\E k \in 1..Len(emitted) : emitted[k] \in FinalizeOutcomes) =>
        /\ rxState = RX_IDLE
        /\ \E i \in 1..Len(timers) : timers[i] = now + CooldownMs

RetryOnAir == IsRetry /\ air = "preamble"

RetryDecoded ==
    /\ IsRetry
    /\ emitted = <<"TEXT_OK">>
    /\ rxOutput.has
    /\ rxOutput.kind = "text"
    /\ rxOutput.text = <<72, 105>>
    /\ rxState = RX_IDLE
    /\ clicks = 1

\* C13 (checked under SpecRecover): INCOMPLETE, BAD_HEADER, UNKNOWN_TYPE and
\* TIMEOUT are recoverable: right after each of them the receiver is in IDLE
\* with its sampling interval still running, and a preamble sent afterwards
\* leads to the preamble phase, then to the data phase, then to the decoded
\* packet, the listen button not having been pressed again.
C13_Recoverable ==
    /\ []((\E k \in 1..Len(emitted) : emitted[k] \in ErrorOutcomes) =>
             rxState = RX_IDLE /\ intervals = 1 /\ isListening /\ refLive)
    /\ (RetryOnAir /\ rxState = RX_IDLE) ~> (RetryOnAir /\ rxState = RX_PREAMBLE)
    /\ (RetryOnAir /\ rxState = RX_PREAMBLE) ~> (RetryOnAir /\ rxState = RX_DATA)
    /\ (RetryOnAir /\ rxState = RX_DATA) ~> RetryDecoded
    /\ [](IsRetry => clicks = 1)

C13_Witness == RetryDecoded /\ sent.after = "TIMEOUT"
C13_WitnessBadHeader == RetryDecoded /\ sent.after = "BAD_HEADER"
C13_WitnessUnknownType == RetryDecoded /\ sent.after = "UNKNOWN_TYPE"
C13_WitnessIncomplete == RetryDecoded /\ sent.after = "INCOMPLETE"

\* ------------------------------------------------------------------------
\* Properties of preamble detection
\* ------------------------------------------------------------------------
\* The clock readings of the ticks: the interval fires every SampleMs.
TickTimes == { k * SampleMs : k \in 1..(MaxDetectMs \div SampleMs + 1) }

\* The first tick of the run of above-threshold ticks that tick t ends.
RunStart(t) ==
    CHOOSE u \in TickTimes :
        /\ u <= t
        /\ \A v \in TickTimes : (u <= v /\ v <= t) => ToneAt(v)
        /\ u = SampleMs \/ ~ToneAt(u - SampleMs)

IdleTick == rxState = RX_IDLE /\ IsTick /\ "on" \in DOMAIN sent

\* C25 as claimed (checked under SpecDetect): on confirmation in IDLE the
\* receiver moves to the sync state, emits 'preamble detected', and sets the
\* data-start time to the time of the confirming tick plus the preamble
\* duration plus the guard gap.
C25_DataStartFromConfirmingTick ==
    [][(IdleTick /\ rxState' = RX_PREAMBLE) =>
          /\ emitted' = <<"PREAMBLE">>
          /\ rxStatus' = "PREAMBLE"
          /\ preambleEndsAt' = now' + PREAMBLE_SYMS * symDurRef + GapMs]_vars

\* C25 amended (checked under SpecDetect): on confirmation in IDLE the
\* receiver moves to the sync state, emits 'preamble detected', and sets the
\* data-start time to the time of the first tick of the confirmed run of
\* above-threshold ticks (when the preamble was first heard) plus the
\* preamble duration plus the guard gap.
C25_DataStartFromFirstHeard ==
    [][(IdleTick /\ rxState' = RX_PREAMBLE) =>
          /\ emitted' = <<"PREAMBLE">>
          /\ rxStatus' = "PREAMBLE"
          /\ ToneAt(now')
          /\ preambleEndsAt' = RunStart(now') + PREAMBLE_SYMS * symDurRef + GapMs]_vars

C25_Witness ==
    /\ "on" \in DOMAIN sent
    /\ rxState = RX_PREAMBLE
    /\ emitted = <<"PREAMBLE">>
    /\ preambleEndsAt = preambleAt + PREAMBLE_SYMS * symDurRef + GapMs
    /\ preambleAt > sent.off
    /\ now > preambleAt + symDurRef

\* C26 (checked under SpecDetect): the timer starts on the first IDLE tick
\* above the threshold; the preamble is confirmed on the first tick at which
\* the magnitude has been above the threshold on every tick for at least one
\* symbol duration (equality included); a tick not above the threshold
\* resets the timer.
C26_SustainedTone ==
    [][IdleTick =>
          IF ToneAt(now')
          THEN /\ preambleAt' = RunStart(now')
               /\ (rxState' = RX_PREAMBLE) = (now' - RunStart(now') >= symDurRef)
          ELSE /\ preambleAt' = 0
               /\ rxState' = RX_IDLE]_vars

\* ------------------------------------------------------------------------
\* Properties of the data phase
\* ------------------------------------------------------------------------
\* The outcomes finalizePacket emits for 32 nibbles or more.
PacketOutcomes == {"BAD_HEADER", "UNKNOWN_TYPE", "TEXT_OK", "IMAGE_OK"}

\* C24 (checked under Spec): in DATA, the tick that closes the fifth
\* consecutive window without an above-threshold sample while the
\* accumulator holds at least 32 nibbles finalizes the packet in that same
\* tick; with 32 or more nibbles held the receiver is never in DATA with a
\* silence counter of 5 or more.
C24_GracefulEnd ==
    /\ [](rxState = RX_DATA /\ Len(rxNibbles) >= 32 => silenceCount < 5)
    /\ [][(/\ IsTick
           /\ rxState = RX_DATA
           /\ Len(rxNibbles) >= 32
           /\ silenceCount = 4
           /\ closedWindow' # <<>>
           /\ \A k \in 1..Len(closedWindow') : closedWindow'[k] = NoSignal) =>
             /\ rxState' = RX_IDLE
             /\ rxNibbles' = <<>>
             /\ Len(emitted') = 1
             /\ emitted'[1] \in PacketOutcomes]_vars

C24_Witness ==
    /\ rxState = RX_IDLE
    /\ emitted = <<"BAD_HEADER">>
    /\ closedWindow # <<>>
    /\ \A k \in 1..Len(closedWindow) : closedWindow[k] = NoSignal
    /\ Len(sent.nibbles) = 34

\* The payload a nibble stream holds for its header: the bytes after the 16
\* header bytes, as many as the header's four length bytes declare (read as
\* an unsigned number, in two halves) and the stream has.
ClampedPayload(nibs) ==
    LET hi == ByteAt(nibs, 6) * 256 + ByteAt(nibs, 7)
        lo == ByteAt(nibs, 8) * 256 + ByteAt(nibs, 9)
        held == Len(nibs) \div 2 - HEADER_LEN
    IN  [ k \in 1..(IF hi = 0 /\ lo < held THEN lo ELSE held) |->
            ByteAt(nibs, HEADER_LEN + k) ]

\* The accumulator a tick finalizes: with the nibble of the window it has
\* closed, if that window held a sample (on the clean channel every sample
\* of a window is the same symbol).
Accumulated ==
    IF \E k \in 1..Len(closedWindow') : closedWindow'[k] # NoSignal
    THEN Append(rxNibbles,
                CHOOSE v \in 0..15 : \E k \in 1..Len(closedWindow') : closedWindow'[k] = v)
    ELSE rxNibbles

\* A tick that finalizes a stream with a valid header of a known type.
FinalizingTick ==
    /\ IsTick
    /\ "declared" \in DOMAIN sent
    /\ rxState = RX_DATA
    /\ rxState' = RX_IDLE
    /\ Len(Accumulated) >= 2 * HEADER_LEN
    /\ \A i \in 1..4 : ByteAt(Accumulated, i) = MAGIC[i]
    /\ ByteAt(Accumulated, 5) \in {TYPE_TEXT, TYPE_IMAGE}
    /\ "TIMEOUT" # emitted'[1]

\* C27 (checked under SpecDeclared): at finalize the accumulator is taken in
\* pairs (a trailing odd nibble is dropped) and the payload handed on is
\* bytes 16 .. 16+L-1 of the decoded bytes, L the header's declared length,
\* clamped to the bytes available: its length is min(L, available - 16), and
\* success is reported also when fewer bytes than declared are available.
C27_PayloadClamped ==
    [][FinalizingTick =>
          /\ emitted' \in {<<"TEXT_OK">>, <<"IMAGE_OK">>}
          /\ rxOutput'.has
          /\ rxOutput'.payload = ClampedPayload(Accumulated)]_vars

\* ------------------------------------------------------------------------
\* Properties of the chirp program
\* ------------------------------------------------------------------------
ChirpIdleTick == chirpRx.rxState = RX_IDLE /\ chirpRx'.now # chirpRx.now

\* The number of places where two neighbours of a window differ.
AdjacentDiffs(w) == Cardinality({ i \in 1..(Len(w) - 1) : w[i] # w[i + 1] })

\* w without its entry i.
Without(w, i) == SubSeq(w, 1, i - 1) \o SubSeq(w, i + 1, Len(w))

\* C29 (checked under SpecChirp): on every IDLE tick where max(magA, magB)
\* exceeds the threshold the dominant tone is appended to a rolling window
\* that never holds more than 20 entries (the oldest is dropped); the
\* preamble is confirmed exactly when the window then holds at least 6
\* entries and at least 4 adjacent pairs differ; on every IDLE tick without
\* such a signal exactly one entry is removed, if there is one.
C29_ChirpDetection ==
    /\ [](Len(chirpRx.syncBuf) <= 20)
    /\ [][ChirpIdleTick =>
            LET a == chirpRx'.debugInfo.a
                b == chirpRx'.debugInfo.b
                old == chirpRx.syncBuf
                new == chirpRx'.syncBuf
            IN  IF a > 80 \/ b > 80
                THEN /\ Len(new) = (IF Len(old) < 20 THEN Len(old) + 1 ELSE 20)
                     /\ a > b => new[Len(new)] = "A"
                     /\ b > a => new[Len(new)] = "B"
                     /\ SubSeq(new, 1, Len(new) - 1) =
                          (IF Len(old) < 20 THEN old ELSE SubSeq(old, 2, 20))
                     /\ (chirpRx'.rxState = RX_SYNC) =
                          (Len(new) >= 6 /\ AdjacentDiffs(new) >= 4)
                ELSE /\ chirpRx'.rxState = RX_IDLE
                     /\ IF old = <<>> THEN new = <<>>
                        ELSE \E i \in 1..Len(old) : new = Without(old, i)]_vars

C29_Witness ==
    /\ chirpRx.rxState = RX_SYNC
    /\ Len(chirpRx.syncBuf) = 20
    /\ chirpRx.syncBuf[1] = "A"
    /\ chirpRx.syncBuf[2] = "A"
    /\ chirpRx.now = 21 * ChirpSampleMs
    /\ chirpRx.rxStatus = "CHIRP"

C29_WitnessDecay ==
    /\ chirpRx.rxState = RX_IDLE
    /\ chirpRx.syncBuf = <<"A", "B", "A">>
    /\ chirpRx.debugInfo = [a |-> 80, b |-> 40]
    /\ chirpRx.now = 5 * ChirpSampleMs

\* The gap of the chirp transmitter between the end of the last preamble
\* slot and the first data tone, for symbol duration sd.
ChirpTxGap(sd) ==
    LET tones == ChirpSchedule(<<0>>, sd)
    IN  tones[2 * PREAMBLE_PAIRS + 1].start - (tones[2 * PREAMBLE_PAIRS].start + sd)

\* C30 (checked under SpecChirp): in the chirp program the guard gap the
\* receiver adds to the preamble length when it computes the data-start
\* time equals the guard gap the transmitter leaves between the last
\* preamble tone's slot and the first data tone.
C30_ChirpGuardGap ==
    [][(ChirpIdleTick /\ chirpRx'.rxState = RX_SYNC) =>
          chirpRx'.dataStartAt - chirpRx'.now - 2 * PREAMBLE_PAIRS * ChirpSymDuration
            = ChirpTxGap(ChirpSymDuration)]_vars

\* The sync state of the receiver of App.jsx ends at the computed time.
C23_SustainedLeavesSync ==
    /\ [](rxState = RX_PREAMBLE => now < preambleEndsAt)
    /\ (rxState = RX_PREAMBLE) ~> (rxState = RX_DATA)

\* The sync state of the chirp receiver ends at the computed time.
C23_ChirpLeavesSync ==
    /\ [](chirpRx.rxState = RX_SYNC => chirpRx.now < chirpRx.dataStartAt)
    /\ (chirpRx.rxState = RX_SYNC) ~> (chirpRx.rxState = RX_DATA)

\* The sync state of the third program ends.
C23_FadeLeavesSync ==
    (fadeRx.rxState = RX_PREAMBLE) ~> (fadeRx.rxState = RX_DATA)

\* C23 (checked under SpecEcho): a receiver that has confirmed a preamble
\* reaches DATA within a bounded time even if the preamble band stays above
\* the threshold on every later tick; this holds for the receiver of
\* App.jsx, the chirp receiver and the receiver of the third program.
C23_SyncNeverStalls ==
    /\ C23_SustainedLeavesSync
    /\ C23_ChirpLeavesSync
    /\ C23_FadeLeavesSync

\* The receivers of App.jsx and of the chirp program in DATA after an echo.
C23_WitnessSustained == sent.echo /\ rxState = RX_DATA
C23_WitnessChirp == sent.echo /\ chirpRx.rxState = RX_DATA
\* The third program long after the preamble, still waiting for it to fade.
C23_WitnessFadeStalled ==
    sent.echo /\ fadeRx.rxState = RX_PREAMBLE /\ fadeRx.now >= 2 * MaxEchoMs

\* A tick of the data phase in the window in which the slider is moved.
ConfigWindowTick ==
    /\ rxState = RX_DATA
    /\ rxState' = RX_DATA
    /\ IsTick
    /\ Len(rxNibbles) = sent.win

\* The samples of the current window after a tick: those of the window it
\* has just closed, if it closed one.
WindowSamples == IF closedWindow' # <<>> THEN closedWindow' ELSE sampleBuf'

\* C28 (checked under SpecConfig): a symbol duration or threshold changed
\* during DATA takes effect only at the next window boundary: in the window
\* in which the slider is moved every tick classifies its sample against
\* the threshold in force when the window opened, and the window is closed
\* against the symbol duration in force when it opened.
C28_ConfigAtWindowBoundary ==
    [][ConfigWindowTick =>
          /\ \A i \in 1..Len(WindowSamples) : WindowSamples[i] # NoSignal
          /\ (closedWindow' # <<>>) = (now' - lastSymTime >= DefaultSymDuration)]_vars

\* What the code does: every tick reads the refs as they are.
C28_TickReadsRefs ==
    [][ConfigWindowTick =>
          /\ WindowSamples[Len(WindowSamples)] # NoSignal <=> 100 > threshRef
          /\ (closedWindow' # <<>>) = (now' - lastSymTime >= symDurRef)]_vars

\* A window closed after three samples, and one holding a sample judged
\* silent after audible ones.
C28_WitnessShortWindow ==
    rxState = RX_DATA /\ symDurRef = 60 /\ Len(closedWindow) = 3 /\ Len(rxNibbles) = sent.win + 1
C28_WitnessMixedWindow ==
    /\ rxState = RX_DATA
    /\ threshRef = 200
    /\ Len(sampleBuf) >= 2
    /\ sampleBuf[1] # NoSignal
    /\ sampleBuf[Len(sampleBuf)] = NoSignal

\* The bytes of the packet a schedule was made for, and its nibble k
\* (counted from 0): the high half of byte k \div 2 first.
ScheduledBytes ==
    BuildHeader(TYPE_TEXT, Len(cArg.payload), 0, 0) \o cArg.payload
ScheduledNibble(k) ==
    LET b == ScheduledBytes[k \div 2 + 1]
    IN  IF k % 2 = 0 THEN b \div 16 ELSE b % 16

C22_GapSymmetric ==
    (cOp = "transmit" /\ rxState = RX_PREAMBLE) =>
        /\ preambleEndsAt - preambleAt = cRes[2].start - cRes[1].start
        /\ preambleEndsAt - preambleAt = PREAMBLE_SYMS * symDurRef + 60

C22_Witness == cOp = "transmit" /\ rxState = RX_PREAMBLE /\ symDurRef = 400
C22_WitnessShortest == cOp = "transmit" /\ rxState = RX_PREAMBLE /\ symDurRef = 30

\* ------------------------------------------------------------------------
\* Properties of the outcomes of a data phase
\* ------------------------------------------------------------------------
\* Whether a handler emitted one of the statuses in S.
EmittedIn(S) == \E k \in 1..Len(emitted') : emitted'[k] \in S

\* C31 (checked under Spec): a tick invokes finalizePacket only while the
\* accumulator holds at least 32 nibbles (after five silent windows with a
\* full header, or when an IMAGE packet reaches its declared length), so
\* no tick of the running receiver emits INCOMPLETE.
C31_NoIncompleteFromTicks ==
    [][IsTick =>
          /\ ~EmittedIn({"INCOMPLETE"})
          /\ EmittedIn(FinalizeOutcomes) => Len(Accumulated) >= 2 * HEADER_LEN]_vars

\* An IMAGE packet finalized by the tick that pushed its last nibble.
C31_Witness ==
    /\ rxState = RX_IDLE
    /\ emitted = <<"IMAGE_OK">>
    /\ closedWindow # <<>>
    /\ closedWindow[1] # NoSignal
    /\ sent.intact
\* A stream of 31 nibbles after seven silent windows, not finalized.
C31_WitnessShort ==
    /\ rxState = RX_DATA
    /\ Len(rxNibbles) = 31
    /\ silenceCount = 7

\* A tick of a data phase that holds 1 to 31 nibbles, all the stream had.
ShortStreamTick ==
    /\ IsTick
    /\ chan = "clean"
    /\ rxState = RX_DATA
    /\ Len(rxNibbles) \in 1..31
    /\ Len(rxNibbles) = Len(sent.nibbles)

\* C32 (checked under Spec): once a data phase holds between 1 and 31
\* nibbles and every later window is silent, no tick finalizes or abandons:
\* the receiver stays in DATA, its silence counter growing by one per
\* closed window, until the tick more than 45000 ms after the start of the
\* data phase, which emits TIMEOUT.
C32_ShortStreamWaitsForTimeout ==
    [][ShortStreamTick =>
          IF now' - rxDataStart > 45000
          THEN rxState' = RX_IDLE /\ emitted' = <<"TIMEOUT">>
          ELSE /\ rxState' = RX_DATA
               /\ emitted' = <<>>
               /\ rxNibbles' = rxNibbles
               /\ rxOutput' = rxOutput
               /\ silenceCount' =
                    (IF closedWindow' # <<>> THEN silenceCount + 1 ELSE silenceCount)]_vars

\* One nibble held after twelve silent windows.
C32_Witness ==
    /\ rxState = RX_DATA
    /\ Len(rxNibbles) = 1
    /\ silenceCount = 12
    /\ rxStatus = "RECEIVING"
\* The end of such a data phase.
C32_WitnessTimeout ==
    /\ rxState = RX_IDLE
    /\ emitted = <<"TIMEOUT">>
    /\ Len(sent.nibbles) = 1

\* C33 (checked under Spec): the 45 s timeout fires whatever the data phase
\* holds: the first DATA tick more than 45000 ms after the start of the
\* data phase clears the accumulator without finalizing, also when a valid
\* header and payload nibbles are held and symbols still arrive; no tick
\* later than that emits a success.
C33_TimeoutRegardlessOfProgress ==
    [][(IsTick /\ rxState = RX_DATA) =>
          /\ now' - rxDataStart > 45000 =>
               /\ emitted' = <<"TIMEOUT">>
               /\ rxState' = RX_IDLE
               /\ rxNibbles' = <<>>
               /\ rxOutput' = rxOutput
               /\ closedWindow' = <<>>
          /\ EmittedIn({"TEXT_OK", "IMAGE_OK"}) => now' - rxDataStart <= 45000]_vars

\* The stream of a text of 172 bytes, timed out while its symbols arrive.
C33_Witness ==
    /\ rxState = RX_IDLE
    /\ emitted = <<"TIMEOUT">>
    /\ Len(sent.nibbles) = 376
    /\ sent.type = TYPE_TEXT
    /\ ~rxOutput.has
\* Such a stream one tick earlier: a valid header and 343 payload nibbles.
C33_WitnessHeld ==
    /\ rxState = RX_DATA
    /\ Len(rxNibbles) = 375
    /\ ParseHeader(NibblesToBytes(SubSeq(rxNibbles, 1, 2 * HEADER_LEN))).valid
    /\ now + sampleMs - rxDataStart > 45000

\* ------------------------------------------------------------------------
\* Properties of the clear button
\* ------------------------------------------------------------------------
\* A step of clearOutput(): the only handler that hides the progress bar
\* without setting a status and without the clock being read.
ClearStep == now' = now /\ progEmitted' # <<>> /\ emitted' = <<>>

\* The statuses that end a data phase.
DataOutcomes ==
    {"TEXT_OK", "IMAGE_OK", "BAD_HEADER", "UNKNOWN_TYPE", "INCOMPLETE", "TIMEOUT"}

\* A session cleared in SYNC or DATA: back in IDLE, its status still the
\* one of the phase that was cleared.
ClearedInFlight == rxState = RX_IDLE /\ rxStatus \in {"PREAMBLE", "RECEIVING"}

C39_WitnessSync == ClearedInFlight /\ rxStatus = "PREAMBLE" /\ intervals = 1
C39_WitnessShown ==
    /\ rxState = RX_IDLE
    /\ rxStatus = "TEXT_OK"
    /\ ~rxOutput.has
    /\ progEmitted = <<HiddenProg, HiddenProg>>

\* ------------------------------------------------------------------------
\* Properties of the end of a data phase
\* ------------------------------------------------------------------------
\* The statuses a data phase can end with: the six outcomes and the status
\* of the silent abandon.
PhaseEnds == DataOutcomes \cup {"LISTENING"}

\* A step that takes the receiver from DATA back to IDLE.
DataPhaseEnds == rxState = RX_DATA /\ rxState' = RX_IDLE

\* What holds of every step whatever ends the phase: a tick that stays in
\* DATA emits no outcome, no step taken in IDLE or SYNC emits a finalize
\* outcome or TIMEOUT, and the tick in which the progress update finalizes an
\* IMAGE packet emits that one status, resets once and schedules one
\* callback.
OutcomeOnlyAtPhaseEnd ==
    /\ IsTick /\ rxState = RX_DATA /\ rxState' = RX_DATA => ~EmittedIn(PhaseEnds)
    /\ rxState \in {RX_IDLE, RX_PREAMBLE} => ~EmittedIn(DataOutcomes)
    /\ IsTick /\ EmittedIn({"IMAGE_OK"}) =>
          /\ emitted' = <<"IMAGE_OK">>
          /\ Len(SelectSeq(progEmitted', LAMBDA p : p = HiddenProg)) = 1
          /\ Len(timers') = Len(timers) + 1
          /\ rxOutput'.has

\* The claim as stated: every return from DATA to IDLE comes with exactly
\* one outcome.
C34_EveryPhaseOneOutcome ==
    [][/\ DataPhaseEnds => Len(emitted') = 1 /\ emitted'[1] \in PhaseEnds
       /\ OutcomeOnlyAtPhaseEnd]_vars

\* C34 (checked under SpecClear): every DATA phase that a tick ends, ends
\* with exactly one of TEXT success, IMAGE success, BAD_HEADER, UNKNOWN_TYPE,
\* INCOMPLETE, TIMEOUT or the silent abandon, emitted by that tick and by no
\* earlier tick of the phase; finalizePacket runs at most once and never in
\* IDLE or SYNC; the tick in which liveUpdateRxImage finalizes an IMAGE
\* packet does not finalize or reset again. A DATA phase ended by the clear
\* button ends with no outcome.
C34_TickEndsPhaseWithOneOutcome ==
    [][/\ DataPhaseEnds /\ IsTick => Len(emitted') = 1 /\ emitted'[1] \in PhaseEnds
       /\ DataPhaseEnds /\ ~IsTick => ClearStep
       /\ OutcomeOnlyAtPhaseEnd]_vars

\* An IMAGE packet finalized by the progress update at the close of its
\* last window.
C34_Witness ==
    /\ rxState = RX_IDLE
    /\ rxStatus = "IMAGE_OK"
    /\ emitted = <<"IMAGE_OK">>
    /\ \E k \in 1..Len(closedWindow) : closedWindow[k] # NoSignal
    /\ Len(timers) = 1
\* Phases ended by the five silent windows, by the abandon and by the
\* timeout.
C34_WitnessSilence ==
    /\ rxState = RX_IDLE
    /\ emitted = <<"TEXT_OK">>
    /\ closedWindow # <<>>
    /\ \A k \in 1..Len(closedWindow) : closedWindow[k] = NoSignal
C34_WitnessAbandon ==
    /\ rxState = RX_IDLE
    /\ emitted = <<"LISTENING">>
    /\ closedWindow # <<>>
    /\ timers = <<>>
C34_WitnessTimeout == rxState = RX_IDLE /\ emitted = <<"TIMEOUT">> /\ air = "quiet"

\* ------------------------------------------------------------------------
\* Properties of the session outside the data phase
\* ------------------------------------------------------------------------
\* C37 (checked under SpecClear): in every state between two ticks of a
\* listening session, if the receiver is in IDLE or SYNC then the nibble
\* accumulator is empty, the sample buffer is empty and the silence counter
\* is 0.
C37_EmptyOutsideData ==
    isListening /\ rxState \in {RX_IDLE, RX_PREAMBLE} =>
        /\ rxNibbles = <<>>
        /\ sampleBuf = <<>>
        /\ silenceCount = 0

\* Back in IDLE after a packet ended by five silent windows.
C37_Witness ==
    /\ isListening
    /\ intervals = 1
    /\ rxState = RX_IDLE
    /\ rxStatus \in {"TEXT_OK", "BAD_HEADER"}
    /\ Len(closedWindow) > 0
    /\ \A k \in 1..Len(closedWindow) : closedWindow[k] = NoSignal
    /\ silenceCount = 0
\* In SYNC, and back in IDLE after the timeout.
C37_WitnessSync == isListening /\ rxState = RX_PREAMBLE /\ now > preambleAt + symDurRef
C37_WitnessTimeout == isListening /\ rxState = RX_IDLE /\ rxStatus = "TIMEOUT" /\ timers # <<>>

\* ------------------------------------------------------------------------
\* Properties of the transmit progress value
\* ------------------------------------------------------------------------
\* C38 (checked under SpecTx): every progress value the animation loop sets
\* during a transmission, the one of its first frame included, lies between
\* 0% and 100%.
C38_ProgressInRange ==
    txAnim.ran => 0 <= txProgress.num /\ txProgress.num <= txProgress.den

\* ------------------------------------------------------------------------
\* Properties of the delayed 'waiting for preamble' status
\* ------------------------------------------------------------------------
\* A step in which a callback scheduled by setTimeout runs.
CooldownStep == Len(timers') < Len(timers)

\* C35 (checked under SpecRecover): the 'waiting for preamble' status of
\* the callback scheduled by finalize (3 s) and by the timeout (2 s) is
\* emitted only while the receiver is listening and in IDLE, in the
\* listening session that scheduled it: never while a later packet is in
\* SYNC or DATA.
C35_CooldownOnlyInIdle ==
    [][CooldownStep /\ EmittedIn({"LISTENING"}) =>
          /\ isListening
          /\ rxState = RX_IDLE
          /\ clicks = 1]_vars

\* ------------------------------------------------------------------------
\* Properties of the window length
\* ------------------------------------------------------------------------
\* C36 (checked under SpecWindows): with the ticks exactly sampleMs =
\* max(12, floor(symbolDuration / 5)) ms apart, every data window closes
\* exactly one symbol duration after the boundary before it, and after N
\* symbol durations in DATA exactly N windows have been closed, at every
\* symbol duration from 30 to 400 ms in steps of 10.
C36_WindowIsOneSymbol ==
    [][IsTick /\ rxState = RX_DATA /\ rxState' = RX_DATA =>
          /\ closedWindow' # <<>> => now' - lastSymTime = symDurRef
          /\ Len(rxNibbles') = (now' - rxDataStart) \div symDurRef]_vars

\* ------------------------------------------------------------------------
\* Properties of the samples and nibbles held
\* ------------------------------------------------------------------------
\* C40 (checked under SpecThreshold): at every threshold from 0 up and for
\* every sequence of magnitude snapshots, each entry of the window sample
\* buffer is the 'no signal' marker or an integer in 0..15, and each entry
\* of the nibble accumulator is an integer in 0..15.
C40_SamplesAreSymbols ==
    /\ \A k \in 1..Len(sampleBuf) : sampleBuf[k] = NoSignal \/ sampleBuf[k] \in 0..15
    /\ \A k \in 1..Len(rxNibbles) : rxNibbles[k] \in 0..15

\* At threshold 0: a window holding a silent tick, a tick at 0.001 and a
\* tie, after a window closed on samples.
C40_Witness ==
    /\ threshRef = 0
    /\ rxState = RX_DATA
    /\ Len(rxNibbles) = 1
    /\ \E i, j, k \in 1..Len(sampleBuf) :
         /\ sampleBuf[i] = NoSignal
         /\ sampleBuf[j] = 3
         /\ sampleBuf[k] = 12
\* At threshold 0.2 the tie at 0.2 is no signal.
C40_WitnessAtThreshold ==
    /\ threshRef = 200
    /\ rxState = RX_DATA
    /\ Len(sampleBuf) = 4
    /\ \A k \in 1..Len(sampleBuf) : sampleBuf[k] = NoSignal \/ sampleBuf[k] = 12
    /\ sampleBuf[4] = 12

====
